---- MODULE Spec2Model ----
(***************************************************************************)
(* SignalForge discovery-and-scoring pipeline.                             *)
(*                                                                         *)
(*   - the scorer (lib/scoring.ts): scorePost and its four sub-scores;     *)
(*   - the connectors (connectors/reddit.ts, x.ts, linkedin.ts): the       *)
(*     API -> scraping fallback, one step per await of the async code;     *)
(*   - the orchestrator (connectors/index.ts): runDiscovery and            *)
(*     organizeIntoClusters.                                               *)
(*                                                                         *)
(* Encodings.  An optional number that is absent (undefined) is NONE.      *)
(* A string of text is a record [words, pad]: the words of `words` joined  *)
(* by single spaces, followed by `pad` further filler words that contain   *)
(* none of the substrings the code looks for.  An absent text and the      *)
(* empty string are both EmptyText (the code reads both through `||`).     *)
(* Time is counted in whole hours from the hour the clock shows in the     *)
(* initial state, which is hour 0.  created_at is NoDate when absent,      *)
(* InvalidDate when Date cannot parse it, and otherwise DateAt(h): the     *)
(* hour h hours before hour 0 (h < 0: after it).                           *)
(***************************************************************************)
EXTENDS Integers, Sequences, FiniteSets, TLC

VARIABLES
    now               \* the wall clock, which `new Date()` reads: the current hour

NONE == 0 - 1

\* created_at: absent, a string Date cannot parse, or the date of the hour `at`
NoDate == [kind |-> "absent", at |-> 0]
InvalidDate == [kind |-> "invalid", at |-> 0]
DateAt(h) == [kind |-> "date", at |-> 0 - h]

\* (now.getTime() - postDate.getTime()) / (1000 * 60 * 60), `now` being the clock
\* at the time of the call
HoursAgo(created_at) == now - created_at.at

Platforms == {"reddit", "x", "linkedin"}

Min(a, b) == IF a < b THEN a ELSE b

\* x || 0 on an optional non-negative number
OrZero(x) == IF x = NONE THEN 0 ELSE x

\* Math.round(num / den) for num >= 0, den > 0 (round half up)
RoundDiv(num, den) == (2 * num + den) \div (2 * den)

(***************************************************************************)
(* Text                                                                    *)
(***************************************************************************)
Vocab ==
    {"startup", "mistakes", "guide", "Guide", "why?", "5", "tips", "how", "to", "news", "x",
     "help", "review", "lorem"}

\* String.prototype.toLowerCase on a word of Vocab
LowerWord(w) == IF w = "Guide" THEN "guide" ELSE w

\* the number of characters of a word of Vocab
WordLen(w) ==
    CASE w \in {"x", "5"} -> 1
      [] w = "to" -> 2
      [] w = "how" -> 3
      [] w \in {"why?", "tips", "news", "help"} -> 4
      [] w \in {"guide", "Guide", "lorem"} -> 5
      [] w = "review" -> 6
      [] w = "startup" -> 7
      [] w = "mistakes" -> 8

\* the filler word ("lorem") a text is padded with
FILLER_LEN == WordLen("lorem")

\* the substrings the scorer and the clusterer look for that each word of
\* Vocab contains (String.prototype.includes / RegExp.test on that word)
WordHas(w, s) ==
    \/ w = s
    \/ w = "mistakes" /\ s = "mistake"
    \/ w = "why?" /\ s = "?"
    \/ w = "5" /\ s = "digit"

EmptyText == [words |-> <<>>, pad |-> 0]

\* a url is <<origin, rest>>, the two parts the code concatenates; '' is EmptyUrl
EmptyUrl == <<"", "">>

\* text.toLowerCase()
ToLowerCase(t) == [t EXCEPT !.words = [i \in 1..Len(t.words) |-> LowerWord(t.words[i])]]

IsEmptyText(t) == t.words = <<>> /\ t.pad = 0

\* text.split(/\s+/).length: ''.split(/\s+/) is [''], of length 1
WordCount(t) == IF IsEmptyText(t) THEN 1 ELSE Len(t.words) + t.pad

\* text.includes(s) for a one-word pattern s
TextHas(t, s) == \E i \in 1..Len(t.words) : WordHas(t.words[i], s)

\* text.includes('how to')
TextHasHowTo(t) ==
    \E i \in 1..(Len(t.words) - 1) : t.words[i] = "how" /\ t.words[i + 1] = "to"

\* /\d+ (tips|ways|steps|things)/.test(text)
TextHasList(t) ==
    \E i \in 1..(Len(t.words) - 1) :
        WordHas(t.words[i], "digit") /\ t.words[i + 1] \in {"tips", "ways", "steps", "things"}

(***************************************************************************)
(* Scorer (lib/scoring.ts).  Each sub-score returns [score, reasons]: the  *)
(* number returned and the reasons pushed onto the shared reasons array.   *)
(***************************************************************************)
ENGAGEMENT_WEIGHT == 40
REDDIT_SATURATION == 1000
X_SATURATION == 500
LINKEDIN_SATURATION == 500
AUTHORITY_CAP == 25
QUALITY_CAP == 15
SCORE_CAP == 100
MAX_REASONS == 3

\* the rate is not capped at 1
EngagementRateUncapped(total, saturation) == RoundDiv(total * ENGAGEMENT_WEIGHT, saturation)

\* Math.round(Math.min(total / saturation, 1) * 40)
EngagementRate40(total, saturation) ==
    IF total >= saturation THEN ENGAGEMENT_WEIGHT
    ELSE RoundDiv(total * ENGAGEMENT_WEIGHT, saturation)

TotalEngagement(post) ==
    LET m == post.metrics IN
    CASE post.platform = "reddit" -> OrZero(m.upvotes) + OrZero(m.comments) * 2
      [] post.platform = "x" -> OrZero(m.likes) + OrZero(m.reposts) * 3 + OrZero(m.comments) * 2
      [] post.platform = "linkedin" -> OrZero(m.likes) + OrZero(m.comments) * 5 + OrZero(m.shares) * 3
      [] OTHER -> 0

calculateEngagementScore(post) ==
    LET m == post.metrics
        total == TotalEngagement(post)
    IN
    CASE post.platform = "reddit" ->
           [score |-> EngagementRate40(total, REDDIT_SATURATION),
            reasons |-> IF total > 500
                        THEN <<[kind |-> "High Reddit engagement", n |-> total]>>
                        ELSE <<>>]
      [] post.platform = "x" ->
           [score |-> EngagementRate40(total, X_SATURATION),
            reasons |-> (IF OrZero(m.reposts) > 10
                         THEN <<[kind |-> "reposts = high shareability", n |-> m.reposts]>>
                         ELSE <<>>)
                        \o (IF total > 100
                            THEN <<[kind |-> "Strong X engagement", n |-> total]>>
                            ELSE <<>>)]
      [] post.platform = "linkedin" ->
           [score |-> EngagementRate40(total, LINKEDIN_SATURATION),
            reasons |-> (IF OrZero(m.comments) > 20
                         THEN <<[kind |-> "comments = high discussion value", n |-> m.comments]>>
                         ELSE <<>>)
                        \o (IF total > 100
                            THEN <<[kind |-> "LinkedIn viral signal", n |-> total]>>
                            ELSE <<>>)]
      [] OTHER -> [score |-> 0, reasons |-> <<>>]

\* LogThresholds[k] is the least integer n with Math.round(Math.log10(n) * 5) >= k,
\* that is ceil(10^((2k-1)/10))
LogThresholds ==
    <<2, 2, 4, 6, 8, 13, 20, 32, 51, 80, 126, 200, 317, 502, 795, 1259, 1996,
      3163, 5012, 7944, 12590, 19953, 31623, 50119, 79433>>

\* Math.round(Math.log10(n) * 5), capped at 25, for an integer n >= 1
RoundLog10Times5(n) == Cardinality({k \in 1..Len(LogThresholds) : LogThresholds[k] <= n})

\* the significant bits of a double
DOUBLE_BITS == 53

RECURSIVE BitLength(_)
BitLength(n) == IF n = 0 THEN 0 ELSE 1 + BitLength(n \div 2)

\* what is left of the fraction r / den after `bits` binary digits of it
RECURSIVE FractionRest(_, _, _)
FractionRest(r, den, bits) ==
    IF bits <= 0 THEN r ELSE FractionRest((2 * r) % den, den, bits - 1)

\* num / den as the division of two doubles gives it, for integers num >= den > 0:
\* -1 when the double is below the quotient, 1 when above, 0 when it is the
\* quotient (round to nearest, ties to even)
DoubleQuotientError(num, den) ==
    LET bits == DOUBLE_BITS - BitLength(num \div den)
        rest == FractionRest(num % den, den, bits)
    IN IF rest = 0 THEN 0
       ELSE IF 2 * rest < den THEN 0 - 1
       ELSE IF 2 * rest > den THEN 1
       ELSE IF 2 * FractionRest(num % den, den, bits - 1) >= den THEN 1 ELSE 0 - 1

\* (num / den).toFixed(1) in tenths: the integer n with n / 10 nearest to the
\* double num / den, the larger one when two are equally near
ToFixed1(num, den) ==
    LET q == (10 * num) \div den
        rem == (10 * num) % den
    IN IF 2 * rem < den THEN q
       ELSE IF 2 * rem > den THEN q + 1
       ELSE IF DoubleQuotientError(num, den) < 0 THEN q ELSE q + 1

\* formatNumber inside the reason text: n is the number in tenths of the unit
formatNumber(num) ==
    IF num >= 1000000 THEN [kind |-> "Author has M followers", n |-> ToFixed1(num, 1000000)]
    ELSE IF num >= 1000 THEN [kind |-> "Author has K followers", n |-> ToFixed1(num, 1000)]
    ELSE [kind |-> "Author has followers", n |-> num * 10]

calculateAuthorityScore(post) ==
    LET followers == OrZero(post.author_followers)
        base == IF followers > 0
                THEN Min(AUTHORITY_CAP, RoundLog10Times5(followers + 1))
                ELSE 0
    IN
    [score |-> IF post.author # "" THEN Min(AUTHORITY_CAP, base + 2) ELSE base,
     reasons |-> IF followers > 10000
                 THEN <<formatNumber(followers)>>
                 ELSE <<>>]

\* posts of three to seven days score above posts of the last three days
RecencyOldFavoured(post) ==
    LET hoursAgo == HoursAgo(post.created_at) IN
    IF post.created_at.kind = "absent" THEN [score |-> 10, reasons |-> <<>>]
    ELSE IF post.created_at.kind = "invalid" THEN [score |-> 4, reasons |-> <<>>]
    ELSE IF hoursAgo < 24 THEN [score |-> 12, reasons |-> <<>>]
    ELSE IF hoursAgo < 72 THEN [score |-> 16, reasons |-> <<>>]
    ELSE IF hoursAgo < 168 THEN [score |-> 20, reasons |-> <<>>]
    ELSE IF hoursAgo < 720 THEN [score |-> 8, reasons |-> <<>>]
    ELSE [score |-> 4, reasons |-> <<>>]

\* a decay that is linear in the age and has no floor
RecencyLinearDecay(post) ==
    IF post.created_at.kind = "absent" THEN [score |-> 10, reasons |-> <<>>]
    ELSE IF post.created_at.kind = "invalid" THEN [score |-> 4, reasons |-> <<>>]
    ELSE [score |-> Min(20, 20 - HoursAgo(post.created_at)), reasons |-> <<>>]

calculateRecencyScore(post) ==
    LET hoursAgo == HoursAgo(post.created_at) IN
    IF post.created_at.kind = "absent" THEN [score |-> 10, reasons |-> <<>>]
    \* an unparsable date gives NaN, and every comparison with NaN is false
    ELSE IF post.created_at.kind = "invalid" THEN [score |-> 4, reasons |-> <<>>]
    ELSE IF hoursAgo < 24
         THEN [score |-> 20, reasons |-> <<[kind |-> "Posted in last 24 hours - high relevance", n |-> 0]>>]
    ELSE IF hoursAgo < 72
         THEN [score |-> 16, reasons |-> <<[kind |-> "Posted in last 3 days", n |-> 0]>>]
    ELSE IF hoursAgo < 168 THEN [score |-> 12, reasons |-> <<>>]
    ELSE IF hoursAgo < 720 THEN [score |-> 8, reasons |-> <<>>]
    ELSE [score |-> 4, reasons |-> <<>>]

EmotionalWords == {"amazing", "secret", "mistake", "never", "always", "best", "worst", "surprising"}

calculateQualityScore(post) ==
    LET text == ToLowerCase(IF ~IsEmptyText(post.text) THEN post.text ELSE post.title)
        wordCount == WordCount(text)
        lengthPts == IF wordCount >= 50 /\ wordCount <= 300 THEN 5
                     ELSE IF wordCount >= 20 /\ wordCount <= 500 THEN 3
                     ELSE 0
        hook == TextHas(text, "?") \/ TextHas(text, "digit") \/ TextHasHowTo(text)
        hookPts == IF hook THEN 4 ELSE 0
        emotionPts == IF \E w \in EmotionalWords : TextHas(text, w) THEN 3 ELSE 0
        urlPts == IF post.url # EmptyUrl THEN 3 ELSE 0
    IN
    [score |-> Min(QUALITY_CAP, lengthPts + hookPts + emotionPts + urlPts),
     reasons |-> (IF hook /\ TextHas(text, "?")
                  THEN <<[kind |-> "Engaging question format", n |-> 0]>>
                  ELSE <<>>)
                 \o (IF hook /\ TextHasList(text)
                     THEN <<[kind |-> "List-style content performs well", n |-> 0]>>
                     ELSE <<>>)]

\* Math.min(100, Math.round(engagement + authority + recency + quality))
TotalScore(engagement, authority, recency, quality) ==
    Min(SCORE_CAP, engagement + authority + recency + quality)

calculateBreakdown(post) ==
    LET e == calculateEngagementScore(post)
        a == calculateAuthorityScore(post)
        r == calculateRecencyScore(post)
        q == calculateQualityScore(post)
    IN
    [engagement |-> e.score, authority |-> a.score, recency |-> r.score, quality |-> q.score,
     total |-> TotalScore(e.score, a.score, r.score, q.score),
     reasons |-> e.reasons \o a.reasons \o r.reasons \o q.reasons]

\* the whole array
SliceNothing(s, n) == s

\* reasons.slice(0, 3)
Slice0(s, n) == SubSeq(s, 1, Min(n, Len(s)))

\* { ...post, score, why }
scorePost(post) ==
    LET breakdown == calculateBreakdown(post) IN
    [k \in (DOMAIN post) \cup {"score", "why"} |->
        IF k = "score" THEN breakdown.total
        ELSE IF k = "why" THEN Slice0(breakdown.reasons, MAX_REASONS)
        ELSE post[k]]

\* the place of x is ahead of the elements of its score
InsertByScoreAhead(sorted, x) ==
    LET k == Cardinality({i \in 1..Len(sorted) : sorted[i].score > x.score})
    IN SubSeq(sorted, 1, k) \o <<x>> \o SubSeq(sorted, k + 1, Len(sorted))

\* the place of x in a list sorted by descending score: behind every element that
\* does not score less (Array.prototype.sort is stable)
InsertByScore(sorted, x) ==
    LET k == Cardinality({i \in 1..Len(sorted) : sorted[i].score >= x.score})
    IN SubSeq(sorted, 1, k) \o <<x>> \o SubSeq(sorted, k + 1, Len(sorted))

RECURSIVE SortByScore(_)
SortByScore(scored) ==
    IF scored = <<>> THEN <<>>
    ELSE InsertByScore(SortByScore(SubSeq(scored, 1, Len(scored) - 1)), scored[Len(scored)])

\* posts.map(scorePost).sort((a, b) => b.score - a.score)
scoreAndRankPosts(posts) == SortByScore([i \in 1..Len(posts) |-> scorePost(posts[i])])

(***************************************************************************)
(* Slicing a text by characters (String.prototype.slice(0, n)).  The       *)
(* texts of the model keep their words within the first 50 characters, so  *)
(* every cut the code makes (50, 100, 500) falls among the filler words:   *)
(* the cut text keeps the whole fillers that fit, and what is left of a    *)
(* cut filler (or the space before it) is one more element for split().    *)
(***************************************************************************)
RECURSIVE WordsLen(_)
WordsLen(ws) ==
    IF ws = <<>> THEN 0
    ELSE WordLen(Head(ws)) + (IF Len(ws) > 1 THEN 1 ELSE 0) + WordsLen(Tail(ws))

CharLen(t) ==
    IF t.words = <<>>
    THEN (IF t.pad = 0 THEN 0 ELSE t.pad * (FILLER_LEN + 1) - 1)
    ELSE WordsLen(t.words) + t.pad * (FILLER_LEN + 1)

SliceChars(t, n) ==
    IF CharLen(t) <= n THEN t
    ELSE LET room == IF t.words = <<>> THEN n + 1 ELSE n - WordsLen(t.words)
             whole == room \div (FILLER_LEN + 1)
             rest == room % (FILLER_LEN + 1)
         IN [words |-> t.words, pad |-> whole + (IF rest > 0 THEN 1 ELSE 0)]

Words(ws) == [words |-> ws, pad |-> 0]

(***************************************************************************)
(* Posts and connector results (lib/types.ts)                              *)
(***************************************************************************)
NoMetrics ==
    [likes |-> NONE, comments |-> NONE, shares |-> NONE,
     upvotes |-> NONE, reposts |-> NONE, views |-> NONE]

createConnectorResult(platform, posts, source, error) ==
    [platform |-> platform, posts |-> posts, source |-> source, error |-> error]

\* no ConnectorResult yet (the promise is pending)
NoResult == [platform |-> "", posts |-> <<>>, source |-> "", error |-> ""]

(***************************************************************************)
(* Configuration and the sizes fixed by the code                           *)
(***************************************************************************)
\* MAX_POSTS_PER_PLATFORM, as configured for the runs explored
MAX_POSTS == 2
\* the longest response body explored, in items (children, tweets, matches)
MaxResp == 2

REDDIT_API_QUERIES == 3
REDDIT_SCRAPE_QUERIES == 2
REDDIT_MIN_UPS == 10
X_API_QUERIES == 3
X_SCRAPE_QUERIES == 2
NITTER_INSTANCES == 2
LINKEDIN_QUERIES == 1
TITLE_CHARS == 100
SELFTEXT_CHARS == 500
DEDUPE_PREFIX_CHARS == 50

\* getPlatformQueries(theme, platform).length
NumQueries(platform) == IF platform = "x" THEN 3 ELSE 5

(***************************************************************************)
(* What the endpoints may answer.  A request ends in a network error       *)
(* (fetch rejects), a non-2xx status, a body that cannot be read or        *)
(* parsed, or a 2xx body holding a list of items drawn from the lists      *)
(* below.                                                                  *)
(***************************************************************************)
\* data.children[i] of the Reddit search JSON; hasData = FALSE: a child without .data
RedditChildren ==
    { [hasData |-> TRUE, permalink |-> "/r/a", ups |-> 1200, num_comments |-> 10,
       author |-> "alice", title |-> Words(<<"startup", "mistakes">>),
       selftext |-> [words |-> <<"why?">>, pad |-> 90], age |-> 2],
      [hasData |-> TRUE, permalink |-> "/r/b", ups |-> 20, num_comments |-> 0,
       author |-> "alice", title |-> Words(<<"Guide">>),
       selftext |-> EmptyText, age |-> 300],
      [hasData |-> TRUE, permalink |-> "/r/b", ups |-> 5, num_comments |-> 40,
       author |-> "", title |-> Words(<<"news">>),
       selftext |-> EmptyText, age |-> 30],
      [hasData |-> FALSE, permalink |-> "", ups |-> 0, num_comments |-> 0,
       author |-> "", title |-> EmptyText, selftext |-> EmptyText, age |-> 0] }

\* <a class="search-title" href=...>title</a> matches of the old.reddit HTML
RedditMatches ==
    { [href |-> "/r/a", rel |-> TRUE, title |-> Words(<<"startup", "mistakes">>)],
      [href |-> "/r/a", rel |-> TRUE, title |-> Words(<<"guide">>)],
      [href |-> "https://redd.it/b", rel |-> FALSE, title |-> Words(<<"news">>)] }

\* data.data[i] of the X search JSON, with the author looked up in includes.users;
\* hasText = FALSE: a tweet without .text
XTweets ==
    { [hasText |-> TRUE, id |-> "1", text |-> [words |-> <<"startup", "mistakes">>, pad |-> 20],
       username |-> "carol", followers |-> 20000, age |-> 2,
       like_count |-> 30, retweet_count |-> 12, reply_count |-> 0],
      [hasText |-> TRUE, id |-> "1", text |-> [words |-> <<"startup", "mistakes">>, pad |-> 20],
       username |-> "carol", followers |-> 20000, age |-> 2,
       like_count |-> 600, retweet_count |-> 40, reply_count |-> 5],
      [hasText |-> TRUE, id |-> "2", text |-> Words(<<"how", "to", "x">>),
       username |-> "", followers |-> NONE, age |-> 100,
       like_count |-> 0, retweet_count |-> 0, reply_count |-> 0],
      [hasText |-> FALSE, id |-> "2", text |-> EmptyText,
       username |-> "", followers |-> NONE, age |-> 0,
       like_count |-> 0, retweet_count |-> 0, reply_count |-> 0] }

\* the tag-stripped, trimmed contents of the <div class="tweet-content"> matches
\* of the nitter HTML; the first two agree on their first 50 characters
XMatches ==
    { [words |-> <<"startup", "mistakes">>, pad |-> 10],
      [words |-> <<"startup", "mistakes">>, pad |-> 12],
      Words(<<"guide", "news">>),
      EmptyText }

\* the lists of at most n different items of S
RECURSIVE SeqsUpTo(_, _)
SeqsUpTo(S, n) ==
    IF n = 0 THEN {<<>>}
    ELSE LET shorter == SeqsUpTo(S, n - 1)
         IN shorter \cup UNION {{Append(q, x) : x \in S \ {q[i] : i \in 1..Len(q)}} :
                                  q \in {r \in shorter : Len(r) = n - 1}}

Items(platform, path) ==
    CASE platform = "reddit" /\ path \in {"api", "hot"} -> RedditChildren
      [] platform = "reddit" /\ path = "scraping" -> RedditMatches
      [] platform = "x" /\ path = "api" -> XTweets
      [] platform = "x" /\ path = "scraping" -> XMatches
      [] OTHER -> {}

\* what `await fetch(...)` ends in: the promise is rejected ("neterr"), or it is
\* resolved with a response of a status that is not 2xx ("non2xx"; "redirect" is the
\* 302/303 fetchLinkedIn tests for) or of a 2xx status ("ok")
Statuses(platform) ==
    IF platform = "linkedin" THEN {"neterr", "non2xx", "redirect", "ok"}
    ELSE {"neterr", "non2xx", "ok"}

\* what `await response.json()` or `await response.text()` ends in: the promise is
\* rejected ("badbody"), or it is resolved with the body ("loginwall": a page
\* holding 'signin' or 'login')
Bodies(platform, path) ==
    IF platform = "linkedin"
    THEN {[kind |-> k, items |-> <<>>] : k \in {"badbody", "loginwall", "ok"}}
    ELSE {[kind |-> "badbody", items |-> <<>>]}
         \cup {[kind |-> "ok", items |-> q] : q \in SeqsUpTo(Items(platform, path), MaxResp)}

(***************************************************************************)
(* Parsing one response: the inner for loops of the four fetch paths.      *)
(* Each takes the items of the response with the posts and the seen-set    *)
(* so far and returns [posts, seen, threw]; threw: an item made the loop   *)
(* throw, with the posts pushed before it kept.                            *)
(***************************************************************************)
RedditApiPost(child) ==
    [platform |-> "reddit",
     url |-> <<"https://reddit.com", child.permalink>>,
     author |-> child.author,
     author_followers |-> NONE,
     title |-> child.title,
     text |-> SliceChars(child.selftext, SELFTEXT_CHARS),
     created_at |-> DateAt(child.age),
     metrics |-> [NoMetrics EXCEPT !.upvotes = child.ups, !.comments = child.num_comments]]

RECURSIVE RedditApiIngest(_, _, _)
RedditApiIngest(children, posts, seen) ==
    IF children = <<>> \/ Len(posts) >= MAX_POSTS
    THEN [posts |-> posts, seen |-> seen, threw |-> FALSE]
    ELSE LET child == Head(children)
             postUrl == <<"https://reddit.com", child.permalink>>
         IN IF ~child.hasData THEN [posts |-> posts, seen |-> seen, threw |-> TRUE]
            ELSE IF postUrl \in seen THEN RedditApiIngest(Tail(children), posts, seen)
            ELSE IF child.ups < REDDIT_MIN_UPS
                 THEN RedditApiIngest(Tail(children), posts, seen \cup {postUrl})
            ELSE RedditApiIngest(Tail(children), Append(posts, RedditApiPost(child)),
                                 seen \cup {postUrl})

RedditScrapePost(match) ==
    [platform |-> "reddit",
     url |-> IF match.rel THEN <<"https://reddit.com", match.href>> ELSE <<"", match.href>>,
     author |-> "",
     author_followers |-> NONE,
     title |-> match.title,
     text |-> EmptyText,
     created_at |-> NoDate,
     metrics |-> [NoMetrics EXCEPT !.upvotes = 0, !.comments = 0]]

RECURSIVE RedditScrapeIngest(_, _, _)
RedditScrapeIngest(matches, posts, seen) ==
    IF matches = <<>> \/ Len(posts) >= MAX_POSTS
    THEN [posts |-> posts, seen |-> seen, threw |-> FALSE]
    ELSE LET post == RedditScrapePost(Head(matches))
         IN IF post.url \in seen THEN RedditScrapeIngest(Tail(matches), posts, seen)
            ELSE RedditScrapeIngest(Tail(matches), Append(posts, post), seen \cup {post.url})

XApiPost(tweet) ==
    [platform |-> "x",
     url |-> <<"https://x.com/i/status/", tweet.id>>,
     author |-> tweet.username,
     author_followers |-> tweet.followers,
     title |-> SliceChars(tweet.text, TITLE_CHARS),
     text |-> tweet.text,
     created_at |-> DateAt(tweet.age),
     metrics |-> [NoMetrics EXCEPT !.likes = tweet.like_count,
                                   !.reposts = tweet.retweet_count,
                                   !.comments = tweet.reply_count]]

RECURSIVE XApiIngest(_, _, _)
XApiIngest(tweets, posts, seen) ==
    IF tweets = <<>> \/ Len(posts) >= MAX_POSTS
    THEN [posts |-> posts, seen |-> seen, threw |-> FALSE]
    ELSE LET tweet == Head(tweets)
         IN IF tweet.id \in seen THEN XApiIngest(Tail(tweets), posts, seen)
            \* tweet.text.slice on a tweet without text throws, after seenIds.add
            ELSE IF ~tweet.hasText
                 THEN [posts |-> posts, seen |-> seen \cup {tweet.id}, threw |-> TRUE]
            ELSE XApiIngest(Tail(tweets), Append(posts, XApiPost(tweet)),
                            seen \cup {tweet.id})

\* encodeURIComponent(query) of the query-th query of getPlatformQueries(theme, 'x'):
\* the theme, the theme with ' tips', the theme as a hashtag
XQuery(query) ==
    CASE query = 1 -> "theme"
      [] query = 2 -> "theme%20tips"
      [] OTHER -> "%23theme"

\* `query` is the index of the query in the connector's query list
XScrapePost(text, query) ==
    [platform |-> "x",
     url |-> <<"https://x.com/search?q=", XQuery(query)>>,
     author |-> "",
     author_followers |-> NONE,
     title |-> SliceChars(text, TITLE_CHARS),
     text |-> text,
     created_at |-> NoDate,
     metrics |-> [NoMetrics EXCEPT !.likes = 0, !.reposts = 0, !.comments = 0]]

RECURSIVE XScrapeIngest(_, _, _, _)
XScrapeIngest(matches, posts, seen, query) ==
    IF matches = <<>> \/ Len(posts) >= MAX_POSTS
    THEN [posts |-> posts, seen |-> seen, threw |-> FALSE]
    ELSE LET text == Head(matches)
             key == SliceChars(text, DEDUPE_PREFIX_CHARS)
         IN IF IsEmptyText(text) \/ key \in seen
            THEN XScrapeIngest(Tail(matches), posts, seen, query)
            ELSE XScrapeIngest(Tail(matches), Append(posts, XScrapePost(text, query)),
                               seen \cup {key}, query)

(***************************************************************************)
(* The connectors.  A connector is a record: pc is where its async code    *)
(* is suspended ("fetch": awaiting the response of the request of query    *)
(* qi (and mirror inst) on `path`; "body": awaiting the body of that       *)
(* response; "errbody": awaiting the text of a non-2xx response; "delay":  *)
(* awaiting the rate-limit                                                 *)
(* delay; "done": its promise is resolved with res; "rejected": its        *)
(* promise is rejected).  The operators below run the code from one await  *)
(* to the next.  posts and seen are the array and the seen-set of the path *)
(* that is running or ran last.  apiReqs, scrReqs, apiEnd and scrStarted   *)
(* record what happened: the requests issued on each path, the number of   *)
(* posts the API path returned (NONE while it has not returned), whether   *)
(* the scraping path was started.                                          *)
(***************************************************************************)
IdleConnector ==
    [pc |-> "idle", path |-> "none", qi |-> 0, inst |-> 0, posts |-> <<>>, seen |-> {},
     res |-> NoResult, stalled |-> FALSE,
     apiReqs |-> 0, scrReqs |-> 0, apiEnd |-> NONE, scrStarted |-> FALSE]

\* return createConnectorResult(...) from the connector
Resolve(c, res) == [c EXCEPT !.pc = "done", !.res = res]

\* await fetch(...) on the current path
AwaitFetch(c) ==
    IF c.path = "scraping"
    THEN [c EXCEPT !.pc = "fetch", !.scrReqs = @ + 1]
    ELSE [c EXCEPT !.pc = "fetch", !.apiReqs = @ + 1]

\* await response.json(), await response.text() of a 2xx response
AwaitBody(c) == [c EXCEPT !.pc = "body"]

\* const errorText = await response.text() of a non-2xx response
AwaitErrorText(c) == [c EXCEPT !.pc = "errbody"]

\* await delay(ms)
AwaitDelay(c) == [c EXCEPT !.pc = "delay"]

---------------------------------------------------------------------------
\* reddit.ts

\* the posts of the scraping path are tagged 'api'
RedditScrapeReturnAsApi(c) ==
    IF Len(c.posts) > 0
    THEN Resolve(c, createConnectorResult("reddit", c.posts, "api", ""))
    ELSE Resolve(c, createConnectorResult("reddit", <<>>, "api", "Both API and scraping failed"))

\* fetchReddit after fetchViaScraping returned c.posts
RedditScrapeReturn(c) ==
    IF Len(c.posts) > 0
    THEN Resolve(c, createConnectorResult("reddit", c.posts, "scraping", ""))
    ELSE Resolve(c, createConnectorResult("reddit", <<>>, "api", "Both API and scraping failed"))

\* the head of the for loop of fetchViaScraping, c.qi the query it is at
RedditScrapeLoop(c) ==
    IF c.qi <= Min(REDDIT_SCRAPE_QUERIES, NumQueries("reddit")) /\ Len(c.posts) < MAX_POSTS
    THEN AwaitFetch(c)
    ELSE RedditScrapeReturn(c)

\* fetchReddit after fetchViaAPI returned c.posts
RedditApiReturn(c) ==
    IF Len(c.posts) > 0
    THEN Resolve([c EXCEPT !.apiEnd = Len(c.posts)],
                 createConnectorResult("reddit", c.posts, "api", ""))
    ELSE RedditScrapeLoop([c EXCEPT !.apiEnd = 0, !.scrStarted = TRUE, !.path = "scraping",
                                    !.qi = 1, !.posts = <<>>, !.seen = {}])

\* the "hot" search is made whatever the number of posts collected
RedditHotUnguarded(c) ==
    IF NumQueries("reddit") > 0
    THEN AwaitFetch([c EXCEPT !.path = "hot", !.qi = 1])
    ELSE RedditApiReturn(c)

\* PRIORITY 2 of fetchViaAPI: the "hot" search
RedditHot(c) ==
    IF Len(c.posts) < MAX_POSTS /\ NumQueries("reddit") > 0
    THEN AwaitFetch([c EXCEPT !.path = "hot", !.qi = 1])
    ELSE RedditApiReturn(c)

\* the head of the for loop of fetchViaAPI, c.qi the query it is at
RedditApiLoop(c) ==
    IF c.qi <= Min(REDDIT_API_QUERIES, NumQueries("reddit")) /\ Len(c.posts) < MAX_POSTS
    THEN AwaitFetch(c)
    ELSE RedditHot(c)

\* the end of one iteration: the next query of the path, or what follows the "hot" search
RedditNext(c) ==
    CASE c.path = "api" -> RedditApiLoop([c EXCEPT !.qi = @ + 1])
      [] c.path = "hot" -> RedditApiReturn(c)
      [] OTHER -> RedditScrapeLoop([c EXCEPT !.qi = @ + 1])

\* catch (err) { console.error(...) } around one request
RedditCatch(c) == RedditNext(c)

fetchReddit(c) == RedditApiLoop([c EXCEPT !.path = "api", !.qi = 1])

\* `await fetch(...)` is over
RedditRespond(c, status) ==
    IF status = "neterr" THEN RedditCatch(c)
    ELSE IF status = "non2xx"
         \* `continue` in the loops; the "hot" search goes on to its delay
         THEN (IF c.path = "hot" THEN AwaitDelay(c) ELSE RedditNext(c))
    ELSE AwaitBody(c)

\* `await response.json()` or `await response.text()` is over
RedditBody(c, out) ==
    IF out.kind = "badbody" THEN RedditCatch(c)
    ELSE LET r == IF c.path = "scraping"
                  THEN RedditScrapeIngest(out.items, c.posts, c.seen)
                  ELSE RedditApiIngest(out.items, c.posts, c.seen)
             d == [c EXCEPT !.posts = r.posts, !.seen = r.seen]
         IN IF r.threw THEN RedditCatch(d) ELSE AwaitDelay(d)

---------------------------------------------------------------------------
\* x.ts

\* the empty result carries no error
XScrapeReturnNoError(c) ==
    Resolve(c, createConnectorResult("x", c.posts, IF Len(c.posts) > 0 THEN "scraping" ELSE "api", ""))

\* fetchX after fetchViaScraping returned c.posts
XScrapeReturn(c) ==
    IF Len(c.posts) > 0
    THEN Resolve(c, createConnectorResult("x", c.posts, "scraping", ""))
    ELSE Resolve(c, createConnectorResult("x", <<>>, "api", "Both API and scraping failed"))

\* the head of the outer loop of fetchViaScraping, c.qi the query it is at
XScrapeQuery(c) ==
    IF c.qi <= Min(X_SCRAPE_QUERIES, NumQueries("x")) /\ Len(c.posts) < MAX_POSTS
    THEN AwaitFetch([c EXCEPT !.inst = 1])
    ELSE XScrapeReturn(c)

\* the head of the inner loop of fetchViaScraping, c.inst the mirror it is at
XScrapeInstance(c) ==
    IF c.inst <= NITTER_INSTANCES /\ Len(c.posts) < MAX_POSTS
    THEN AwaitFetch(c)
    ELSE XScrapeQuery([c EXCEPT !.qi = @ + 1])

\* the scraping path of fetchX
XStartScraping(c) ==
    XScrapeQuery([c EXCEPT !.scrStarted = TRUE, !.path = "scraping",
                           !.qi = 1, !.posts = <<>>, !.seen = {}])

\* fetchX after fetchViaAPI returned c.posts
XApiReturn(c) ==
    IF Len(c.posts) > 0
    THEN Resolve([c EXCEPT !.apiEnd = Len(c.posts)],
                 createConnectorResult("x", c.posts, "api", ""))
    ELSE XStartScraping([c EXCEPT !.apiEnd = 0])

\* the head of the for loop of fetchViaAPI, c.qi the query it is at
XApiLoop(c) ==
    IF c.qi <= Min(X_API_QUERIES, NumQueries("x")) /\ Len(c.posts) < MAX_POSTS
    THEN AwaitFetch(c)
    ELSE XApiReturn(c)

\* the end of one iteration: the next query of the API path, the next mirror of the
\* scraping path
XNext(c) ==
    IF c.path = "api" THEN XApiLoop([c EXCEPT !.qi = @ + 1])
    ELSE XScrapeInstance([c EXCEPT !.inst = @ + 1])

\* the error of a request is caught nowhere: the connector's promise is rejected
XUncaught(c) == [c EXCEPT !.pc = "rejected"]

\* catch around one request (API path), catch { continue } (scraping path)
XCatch(c) == XNext(c)

\* the API path is taken whether or not a token is configured
fetchXAlwaysApi(c, tk) == XApiLoop([c EXCEPT !.path = "api", !.qi = 1])

\* if (X_BEARER_TOKEN) { API path } else { log }, then the scraping path
fetchX(c, tk) ==
    IF tk THEN XApiLoop([c EXCEPT !.path = "api", !.qi = 1])
    ELSE XStartScraping(c)

\* `await fetch(...)` is over
XRespond(c, status) ==
    IF status = "neterr" THEN XCatch(c)
    ELSE IF status = "non2xx"
         \* the API path reads the text of the response; the scraping path continues
         \* with the next mirror
         THEN (IF c.path = "api" THEN AwaitErrorText(c) ELSE XNext(c))
    ELSE AwaitBody(c)

\* `await response.json()` or `await response.text()` is over
XBody(c, out) ==
    \* the API path throws its own Error with the text, or response.text() threw:
    \* caught around the request
    IF c.pc = "errbody" \/ out.kind = "badbody" THEN XCatch(c)
    ELSE IF c.path = "api"
         THEN LET r == XApiIngest(out.items, c.posts, c.seen)
                  d == [c EXCEPT !.posts = r.posts, !.seen = r.seen]
              IN IF r.threw THEN XCatch(d) ELSE AwaitDelay(d)
    ELSE LET r == XScrapeIngest(out.items, c.posts, c.seen, c.qi)
             d == [c EXCEPT !.posts = r.posts, !.seen = r.seen]
         \* if (posts.length > 0) break: on to the next query, without the delay
         IN IF Len(d.posts) > 0 THEN XScrapeQuery([d EXCEPT !.qi = @ + 1])
            ELSE AwaitDelay(d)

---------------------------------------------------------------------------
\* linkedin.ts

\* fetchLinkedIn after fetchViaScraping returned: posts is never pushed to
LinkedInReturn(c) ==
    IF Len(c.posts) > 0
    THEN Resolve(c, createConnectorResult("linkedin", c.posts, "scraping", ""))
    ELSE Resolve(c, createConnectorResult("linkedin", <<>>, "scraping",
                                          "LinkedIn scraping failed or returned no results"))

\* the head of the for loop of fetchViaScraping
LinkedInLoop(c) ==
    IF c.qi <= Min(LINKEDIN_QUERIES, NumQueries("linkedin"))
    THEN AwaitFetch(c)
    ELSE LinkedInReturn(c)

\* the scraping path is taken whatever the feature flag
fetchLinkedInAlwaysScrapes(c, enabled) ==
    LinkedInLoop([c EXCEPT !.scrStarted = TRUE, !.path = "scraping", !.qi = 1])

fetchLinkedIn(c, enabled) ==
    IF ~enabled
    THEN Resolve(c, createConnectorResult("linkedin", <<>>, "api",
                                          "LinkedIn integration limited in MVP"))
    ELSE LinkedInLoop([c EXCEPT !.scrStarted = TRUE, !.path = "scraping", !.qi = 1])

\* `await fetch(...)` is over
LinkedInRespond(c, status) ==
    \* break on a redirect; continue on another non-2xx status; the error is caught
    \* inside the loop
    IF status = "redirect" THEN LinkedInReturn(c)
    ELSE IF status = "ok" THEN AwaitBody(c)
    ELSE LinkedInLoop([c EXCEPT !.qi = @ + 1])

\* `await response.text()` is over
LinkedInBody(c, out) ==
    \* break on a login wall; nothing is extracted from another page
    IF out.kind = "loginwall" THEN LinkedInReturn(c)
    ELSE LinkedInLoop([c EXCEPT !.qi = @ + 1])

(***************************************************************************)
(* Theme expansion (lib/theme.ts).  A theme is the sequence of its words,  *)
(* trimmed; a keyword is a sequence of words too.  The words of a theme    *)
(* are lower-case words of Vocab, none of which is part of another word.   *)
(***************************************************************************)
Themes == {<<"startup", "mistakes">>}

expandTheme(th) ==
    LET normalizedTheme == [i \in 1..Len(th) |-> LowerWord(th[i])]
        split == [i \in 1..Len(th) |-> <<normalizedTheme[i]>>]
    IN
    << [name |-> <<"", " Insights">>, keywords |-> <<normalizedTheme>> \o split],
       [name |-> <<"How to ", "">>,
        keywords |-> <<normalizedTheme, <<"guide">>, <<"tutorial">>, <<"learn">>, <<"tips">> >>],
       [name |-> <<"", " Discussions">>,
        keywords |-> <<normalizedTheme, <<"problem">>, <<"issue">>, <<"help">>, <<"question">> >>],
       [name |-> <<"", " News">>,
        keywords |-> <<normalizedTheme, <<"news">>, <<"update">>, <<"announcement">>, <<"latest">> >>],
       [name |-> <<"", " Reviews">>,
        keywords |-> <<normalizedTheme, <<"review">>, <<"opinion">>, <<"experience">>, <<"thoughts">> >>] >>

(***************************************************************************)
(* Clustering (connectors/index.ts, organizeIntoClusters)                  *)
(***************************************************************************)
CLUSTER_POSTS == 5
MAX_CLUSTERS == 5

\* ws, a sequence of words joined by spaces, includes the keyword kw
WordsInclude(ws, kw) ==
    IF Len(kw) = 1 THEN \E i \in 1..Len(ws) : WordHas(ws[i], kw[1])
    ELSE \E i \in 1..(Len(ws) - Len(kw) + 1) : \A j \in 1..Len(kw) : ws[i + j - 1] = kw[j]

\* the words of a text, fillers included
FullWords(t) == t.words \o [i \in 1..t.pad |-> "lorem"]

\* `${post.title} ${post.text || ''}`.toLowerCase().includes(kw.toLowerCase())
ContentIncludes(post, kw) ==
    LET content == FullWords(ToLowerCase(post.title)) \o FullWords(ToLowerCase(post.text))
        k == [i \in 1..Len(kw) |-> LowerWord(kw[i])]
    IN WordsInclude(content, k)

\* matchCount >= 1
MatchesCluster(post, clusterDef) ==
    \E i \in 1..Len(clusterDef.keywords) : ContentIncludes(post, clusterDef.keywords[i])

RECURSIVE SumScores(_)
SumScores(posts) == IF posts = <<>> THEN 0 ELSE Head(posts).score + SumScores(Tail(posts))

\* the platforms of the posts, each once, in order of first appearance
RECURSIVE PlatformsOf(_)
PlatformsOf(posts) ==
    IF posts = <<>> THEN <<>>
    ELSE LET front == PlatformsOf(SubSeq(posts, 1, Len(posts) - 1))
             last == posts[Len(posts)].platform
         IN IF \E i \in 1..Len(front) : front[i] = last THEN front ELSE Append(front, last)

\* lib/scoring.ts: the description of a cluster
generateClusterInsight(posts) ==
    IF posts = <<>> THEN [avgScore |-> 0, top |-> "", platforms |-> <<>>]
    ELSE [avgScore |-> RoundDiv(SumScores(posts), Len(posts)),
          top |-> posts[1].platform,
          platforms |-> PlatformsOf(posts)]

\* the urls of the posts
UrlsOf(posts) == {posts[i].url : i \in 1..Len(posts)}

\* the posts of a cluster are not marked as used
MarkNothing(used, clusterPosts) == used

\* only the first post of a cluster is marked as used
MarkFirstUsed(used, clusterPosts) ==
    IF clusterPosts = <<>> THEN used ELSE used \cup {clusterPosts[1].url}

\* clusterPosts.forEach(p => usedPostIds.add(p.url))
MarkUsed(used, clusterPosts) == used \cup UrlsOf(clusterPosts)

\* the loop over expansion.clusters, from definition k on: [clusters, used]
RECURSIVE AssignClusters(_, _, _, _, _)
AssignClusters(defs, k, posts, used, clusters) ==
    IF k > Len(defs) THEN [clusters |-> clusters, used |-> used]
    ELSE LET clusterDef == defs[k]
             Matching(post) == post.url \notin used /\ MatchesCluster(post, clusterDef)
             clusterPosts == Slice0(SelectSeq(posts, Matching), CLUSTER_POSTS)
         IN AssignClusters(defs, k + 1, posts, MarkUsed(used, clusterPosts),
                           IF Len(clusterPosts) > 0
                           THEN Append(clusters,
                                       [name |-> clusterDef.name,
                                        description |-> generateClusterInsight(clusterPosts),
                                        keywords |-> clusterDef.keywords,
                                        posts |-> clusterPosts])
                           ELSE clusters)

\* the place of cluster x in a list sorted by descending average score (stable):
\* avgA >= avgB, compared without division
InsertByAverage(sorted, x) ==
    LET k == Cardinality({i \in 1..Len(sorted) :
                 SumScores(sorted[i].posts) * Len(x.posts)
                     >= SumScores(x.posts) * Len(sorted[i].posts)})
    IN SubSeq(sorted, 1, k) \o <<x>> \o SubSeq(sorted, k + 1, Len(sorted))

\* the clusters are left in the order they were made in
SortByNothing(clusters) == clusters

RECURSIVE SortByAverage(_)
SortByAverage(clusters) ==
    IF clusters = <<>> THEN <<>>
    ELSE InsertByAverage(SortByAverage(SubSeq(clusters, 1, Len(clusters) - 1)),
                         clusters[Len(clusters)])

\* the posts no cluster definition claimed are left out
organizeWithoutTopPerformers(expansion, posts) ==
    Slice0(SortByAverage(AssignClusters(expansion, 1, posts, {}, <<>>).clusters), MAX_CLUSTERS)

organizeIntoClusters(expansion, posts) ==
    LET assigned == AssignClusters(expansion, 1, posts, {}, <<>>)
        Unused(post) == post.url \notin assigned.used
        remainingPosts == Slice0(SelectSeq(posts, Unused), CLUSTER_POSTS)
        clusters == IF Len(remainingPosts) > 0
                    THEN <<[name |-> <<"Top Performers", "">>,
                            description |-> generateClusterInsight(remainingPosts),
                            keywords |-> <<>>,
                            posts |-> remainingPosts]>> \o assigned.clusters
                    ELSE assigned.clusters
    IN Slice0(SortByAverage(clusters), MAX_CLUSTERS)

(***************************************************************************)
(* runDiscovery (connectors/index.ts)                                      *)
(***************************************************************************)
ConnectorOrder == <<"reddit", "x", "linkedin">>

RECURSIVE Flatten(_)
Flatten(lists) == IF lists = <<>> THEN <<>> ELSE Head(lists) \o Flatten(Tail(lists))

\* the entries in the reverse of the connector order
RECURSIVE CollectErrorsLastFirst(_)
CollectErrorsLastFirst(results) ==
    IF results = <<>> THEN <<>>
    ELSE CollectErrorsLastFirst(Tail(results))
         \o (IF Head(results).error # ""
             THEN <<[platform |-> Head(results).platform, error |-> Head(results).error]>>
             ELSE <<>>)

\* the `${result.platform}: ${result.error}` entries, in connector order
RECURSIVE CollectErrors(_)
CollectErrors(results) ==
    IF results = <<>> THEN <<>>
    ELSE (IF Head(results).error # ""
          THEN <<[platform |-> Head(results).platform, error |-> Head(results).error]>>
          ELSE <<>>) \o CollectErrors(Tail(results))

NoDiscovery ==
    [success |-> FALSE, clusters |-> <<>>, total_posts |-> 0,
     platform_results |-> <<>>, errors |-> <<>>]

\* the failure result carries the collected per-platform errors
DiscoverKeepErrors(th, platformResults) ==
    LET allPosts == Flatten([i \in 1..Len(platformResults) |-> platformResults[i].posts])
        scoredPosts == scoreAndRankPosts(allPosts)
    IN [success |-> Len(allPosts) > 0,
        clusters |-> IF Len(allPosts) = 0 THEN <<>>
                     ELSE organizeIntoClusters(expandTheme(th), scoredPosts),
        total_posts |-> Len(scoredPosts),
        platform_results |-> platformResults,
        errors |-> CollectErrors(platformResults)]

\* runDiscovery from the resolution of Promise.all on
Discover(th, platformResults) ==
    LET allPosts == Flatten([i \in 1..Len(platformResults) |-> platformResults[i].posts])
        scoredPosts == scoreAndRankPosts(allPosts)
    IN IF Len(allPosts) = 0
       THEN [success |-> FALSE, clusters |-> <<>>, total_posts |-> 0,
             platform_results |-> platformResults,
             errors |-> <<[platform |-> "", error |-> "All platforms failed to return results"]>>]
       ELSE [success |-> TRUE,
             clusters |-> organizeIntoClusters(expandTheme(th), scoredPosts),
             total_posts |-> Len(scoredPosts),
             platform_results |-> platformResults,
             errors |-> CollectErrors(platformResults)]

(***************************************************************************)
(* POST /api/run (app/api/run/route.ts) and the gating it uses             *)
(* (lib/gating.ts).  A request body theme is absent, a number, or a string *)
(* of `lead` spaces, a text and `trail` spaces.  A row of run_attempts is  *)
(* [user_id, theme, status, month], month the month of its created_at.     *)
(***************************************************************************)
FREE_RUNS_PER_MONTH == 3
THEME_MIN_CHARS == 2
THEME_MAX_CHARS == 200

\* Infinity, the remaining_runs of a subscriber
INFINITY == 0 - 2

\* JSON.stringify of a number inside NextResponse.json: Infinity becomes null
JsonNumber(n) == IF n = INFINITY THEN NONE ELSE n

NoTheme == [kind |-> "absent", lead |-> 0, text |-> EmptyText, trail |-> 0]
NumberTheme == [kind |-> "number", lead |-> 0, text |-> EmptyText, trail |-> 0]
StringTheme(lead, text, trail) == [kind |-> "string", lead |-> lead, text |-> text, trail |-> trail]

\* !body.theme || typeof body.theme !== 'string'
ThemeMissing(th) == th.kind # "string" \/ (th.lead = 0 /\ th.trail = 0 /\ IsEmptyText(th.text))

\* body.theme.trim()
Trim(th) == th.text

\* the length of the theme is not checked
ThemeLengthUnchecked(text) == FALSE

\* theme.length < 2 || theme.length > 200
ThemeLengthInvalid(text) == CharLen(text) < THEME_MIN_CHARS \/ CharLen(text) > THEME_MAX_CHARS

\* the words of a theme text, fillers included
ThemeWords(text) == FullWords(text)

NoRequest == [body |-> "none", theme |-> NoTheme, linkedin_url |-> "", auth |-> "none"]

NoResponse ==
    [status |-> 0, success |-> FALSE, code |-> "", message |-> "",
     clusters |-> <<>>, total_posts |-> 0, remaining_free_runs |-> NONE]

\* NextResponse.json<ErrorResponse>({ success: false, code, message }, { status })
ErrorResponse(status, code, message) ==
    [NoResponse EXCEPT !.status = status, !.code = code, !.message = message]

\* NextResponse.json<RunResponse>({ success: true, ... }), status 200
RunResponse(result, remaining) ==
    [NoResponse EXCEPT !.status = 200, !.success = TRUE, !.clusters = result.clusters,
                       !.total_posts = result.total_posts,
                       !.remaining_free_runs = JsonNumber(remaining)]

\* the rows the count query of checkGating selects
SuccessfulRuns(rows, userId, startOfMonth) ==
    Cardinality({i \in 1..Len(rows) :
        /\ rows[i].user_id = userId
        /\ rows[i].status = "success"
        /\ rows[i].month >= startOfMonth})

\* Math.max(0, a)
Max0(a) == IF a < 0 THEN 0 ELSE a

\* checkGating after its first await: subscription?.status === 'active', the data of
\* a select that returned an error being null
IsSubscribed(status, selectOk) == selectOk /\ status = "active"

\* what checkGating returns for a subscriber
GatingSubscribed ==
    [allowed |-> TRUE, remaining_runs |-> INFINITY, is_subscribed |-> TRUE,
     successful_runs_this_month |-> 0]

\* checkGating after its second await, the count query having seen rows; countOk: the
\* query returned no error
GatingCounted(rows, userId, startOfMonth, countOk) ==
    IF ~countOk
    THEN [allowed |-> TRUE, remaining_runs |-> FREE_RUNS_PER_MONTH, is_subscribed |-> FALSE,
          successful_runs_this_month |-> 0]
    ELSE LET successfulRuns == SuccessfulRuns(rows, userId, startOfMonth)
         IN [allowed |-> successfulRuns < FREE_RUNS_PER_MONTH,
             remaining_runs |-> Max0(FREE_RUNS_PER_MONTH - successfulRuns),
             is_subscribed |-> FALSE,
             successful_runs_this_month |-> successfulRuns]

\* checkGating when nothing is written between its two queries
checkGating(rows, status, userId, startOfMonth, selectOk, countOk) ==
    IF IsSubscribed(status, selectOk) THEN GatingSubscribed
    ELSE GatingCounted(rows, userId, startOfMonth, countOk)

\* insertOk: the insert returned no error (an error is logged, not thrown)
recordRunAttempt(rows, userId, th, status, created, insertOk) ==
    IF insertOk
    THEN Append(rows, [user_id |-> userId, theme |-> th, status |-> status, month |-> created])
    ELSE rows

\* every run is recorded as a success
AttemptAlwaysSuccess(result) == "success"

\* if (!result.success || result.total_posts === 0) ... 'failure', else 'success'
AttemptStatus(result) ==
    IF ~result.success \/ result.total_posts = 0 THEN "failure" ELSE "success"

(***************************************************************************)
(* withRetry (connectors/base.ts).  A call is the record of its arguments, *)
(* the attempt the loop is at, the delays it has awaited and what fn did   *)
(* at each call; pc is "calling" while fn is awaited and "delaying" while  *)
(* delay(delayMs) is.                                                      *)
(***************************************************************************)
DEFAULT_MAX_ATTEMPTS == 3
DEFAULT_BASE_DELAY == 1000

RECURSIVE Pow2(_)
Pow2(n) == IF n <= 0 THEN 1 ELSE 2 * Pow2(n - 1)

\* let lastError: Error | undefined
UNDEFINED == "undefined"

NoRetry ==
    [pc |-> "idle", maxAttempts |-> 0, baseDelay |-> 0, attempt |-> 0,
     waits |-> <<>>, outcomes |-> <<>>, lastError |-> UNDEFINED, settled |-> UNDEFINED]

\* the head of the for loop: the next call of fn, or `throw lastError`
RetryLoop(r) ==
    IF r.attempt <= r.maxAttempts
    THEN [r EXCEPT !.pc = "calling"]
    ELSE [r EXCEPT !.pc = "rejected", !.settled = r.lastError]

\* the call starts with the first pass of the loop; an argument left out takes its default
withRetry(maxAttempts, baseDelay) ==
    RetryLoop([NoRetry EXCEPT
                 !.maxAttempts = IF maxAttempts = NONE THEN DEFAULT_MAX_ATTEMPTS ELSE maxAttempts,
                 !.baseDelay = IF baseDelay = NONE THEN DEFAULT_BASE_DELAY ELSE baseDelay,
                 !.attempt = 1])

\* return await fn()
RetryReturn(r, value) == [r EXCEPT !.pc = "resolved", !.settled = value]

\* the delay is awaited after the last attempt too
RetryCatchAlwaysWaits(r, error) ==
    [r EXCEPT !.lastError = error, !.pc = "delaying",
              !.waits = Append(@, r.baseDelay * Pow2(r.attempt - 1))]

\* catch (error): the delay before the next attempt, none after the last one
RetryCatch(r, error) ==
    LET c == [r EXCEPT !.lastError = error]
    IN IF r.attempt < r.maxAttempts
       THEN [c EXCEPT !.pc = "delaying",
                      !.waits = Append(@, r.baseDelay * Pow2(r.attempt - 1))]
       ELSE RetryLoop([c EXCEPT !.attempt = @ + 1])

\* delay(delayMs) is over: attempt++
RetryDelayed(r) == RetryLoop([r EXCEPT !.attempt = @ + 1])

(***************************************************************************)
(* fetchReddit and fetchX (connectors/reddit.ts, x.ts) with log calls that *)
(* may throw.  A log call is the pair <<method, action>> of logConnector;  *)
(* failing is the set of the log calls that throw.  What a path returned   *)
(* is "posts" or "empty".                                                  *)
(***************************************************************************)
LogCalls == {"api", "scraping"} \X {"start", "success", "error"}

NoLogged ==
    [pc |-> "idle", platform |-> "", failing |-> {}, apiOut |-> "", scrOut |-> "",
     source |-> "", error |-> ""]

\* logConnector(platform, method, action, ...) throws
LogThrows(c, method, action) == <<method, action>> \in c.failing

\* the exception leaves the async function: its promise is rejected
LogRejects(c) == [c EXCEPT !.pc = "rejected"]

LogResolves(c, source, error) == [c EXCEPT !.pc = "resolved", !.source = source, !.error = error]

\* logConnector(platform, 'scraping', 'start'), outside any try, then await fetchViaScraping
LogScrapingStart(c) ==
    IF LogThrows(c, "scraping", "start") THEN LogRejects(c) ELSE [c EXCEPT !.pc = "scraping"]

\* fetchReddit / fetchX up to the first await
LoggedFetch(c, tk) ==
    IF c.platform = "x" /\ ~tk
    THEN (IF LogThrows(c, "api", "error") THEN LogRejects(c) ELSE LogScrapingStart(c))
    ELSE (IF LogThrows(c, "api", "start") THEN LogRejects(c) ELSE [c EXCEPT !.pc = "api"])

\* the catch block of the API path: logConnector(platform, 'api', 'error', message)
LogApiCatch(c) ==
    IF LogThrows(c, "api", "error") THEN LogRejects(c) ELSE LogScrapingStart(c)

\* after `await fetchViaAPI(queries)` returned out
LogApiReturned(c, out) ==
    LET d == [c EXCEPT !.apiOut = out] IN
    IF out = "posts"
    THEN (IF LogThrows(d, "api", "success") THEN LogApiCatch(d) ELSE LogResolves(d, "api", ""))
    ELSE (IF LogThrows(d, "api", "error") THEN LogApiCatch(d) ELSE LogScrapingStart(d))

\* the end of the function
LogBothFailed(c) == LogResolves(c, "api", "Both API and scraping failed")

\* the catch block of the scraping path
LogScrapingCatch(c) ==
    IF LogThrows(c, "scraping", "error") THEN LogRejects(c) ELSE LogBothFailed(c)

\* after `await fetchViaScraping(queries)` returned out
LogScrapingReturned(c, out) ==
    LET d == [c EXCEPT !.scrOut = out] IN
    IF out = "posts"
    THEN (IF LogThrows(d, "scraping", "success") THEN LogScrapingCatch(d)
          ELSE LogResolves(d, "scraping", ""))
    ELSE (IF LogThrows(d, "scraping", "error") THEN LogScrapingCatch(d) ELSE LogBothFailed(d))

(***************************************************************************)
(* The calls of POST /api/run explored and the dashboard                   *)
(***************************************************************************)
MaxRequests == 2
MaxMonth == 1
MaxDashboardRuns == 1

\* the calls of the handler, in the order the requests arrive
Handlers == 1..MaxRequests

USER == "u1"

DASHBOARD_QUERIES == 3
DASHBOARD_ENOUGH == 15

\* the theme typed in the dashboard
DashboardTheme == Words(<<"tips">>)

\* the numbers of posts one search of the dashboard returns: none, or so many that
\* two searches are enough
DashboardPosts == {0, (DASHBOARD_ENOUGH + 1) \div 2}

NoDashboard == [pc |-> "idle", linkedinUrl |-> "", query |-> 0, found |-> 0, runs |-> 0]

(***************************************************************************)
(* State                                                                   *)
(***************************************************************************)
VARIABLES
    token,            \* X_BEARER_TOKEN is set
    linkedinEnabled,  \* ENABLE_LINKEDIN_SCRAPING === 'true'
    run,              \* runDiscovery: "idle", "fetching" (awaiting Promise.all), "done"
    theme,            \* the theme runDiscovery was called with
    conn,             \* the three connector calls of the run
    result,           \* the DiscoveryResult runDiscovery resolved with
    scoreIn,          \* the post handed to scorePost (<<>>: none)
    scoreOut,         \* the ScoredPost it returned (<<>>: none)
    cmpIn,            \* a second post handed to scorePost, a variant of the first
    cmpOut,           \* the ScoredPost it returned
    againOut,         \* what scorePost returned for the first post when called again
    calledAt,         \* the hour of the first call and of the call with the first post again
    attempts,         \* the rows of run_attempts
    subscription,     \* subscriptions.status of the user
    profile,          \* profiles.linkedin_url of the user
    month,            \* the current month (UTC)
    startOfMonth,     \* per call of POST: getStartOfMonthUTC() of the checkGating it is in
    routePc,          \* POST /api/run: the await each call of the handler is at
    routeReq,         \* the request of each call
    routeRun,         \* the DiscoveryResult runDiscovery returned to each call
    response,         \* the response of each call
    served,           \* the number of requests received
    dash,             \* handleDiscover of the dashboard page in the user's browser
    retry,            \* the withRetry call
    logged            \* a connector call whose log calls may throw

vars ==
    <<now, token, linkedinEnabled, run, theme, conn, result, scoreIn, scoreOut, cmpIn, cmpOut,
      againOut, calledAt, attempts, subscription, profile, month, startOfMonth, routePc, routeReq, routeRun,
      response, served, dash, retry, logged>>

runVars == <<token, linkedinEnabled, run, theme, conn, result>>
scoreVars == <<now, scoreIn, scoreOut, cmpIn, cmpOut, againOut, calledAt>>

\* scorePost has not been called
NoCalls == [first |-> NONE, again |-> NONE]
routeVars ==
    <<attempts, subscription, profile, month, startOfMonth, routePc, routeReq, routeRun, response,
      served, dash>>

baseVars == <<retry, logged>>

\* no request to POST /api/run has been made
RouteIdle ==
    /\ attempts = <<>>
    /\ subscription = "none"
    /\ profile = ""
    /\ month = 0
    /\ startOfMonth = [h \in Handlers |-> NONE]
    /\ routePc = [h \in Handlers |-> "idle"]
    /\ routeReq = [h \in Handlers |-> NoRequest]
    /\ routeRun = [h \in Handlers |-> NoDiscovery]
    /\ response = [h \in Handlers |-> NoResponse]
    /\ served = 0
    /\ dash = NoDashboard

Init ==
    /\ now = 0
    /\ calledAt = NoCalls
    /\ token \in BOOLEAN
    /\ linkedinEnabled \in BOOLEAN
    /\ run = "idle"
    /\ theme = <<>>
    /\ conn = [p \in Platforms |-> IdleConnector]
    /\ result = NoDiscovery
    /\ scoreIn = <<>>
    /\ scoreOut = <<>>
    /\ cmpIn = <<>>
    /\ cmpOut = <<>>
    /\ againOut = <<>>
    /\ RouteIdle
    /\ retry = NoRetry
    /\ logged = NoLogged

\* runDiscovery(th) up to `await Promise.all([...])`: each connector call runs to its
\* first await before the next one is made
StartRun(th) ==
    /\ run = "idle"
    /\ run' = "fetching"
    /\ theme' = th
    /\ conn' = [p \in Platforms |->
                  CASE p = "reddit" -> fetchReddit(IdleConnector)
                    [] p = "x" -> fetchX(IdleConnector, token)
                    [] OTHER -> fetchLinkedIn(IdleConnector, linkedinEnabled)]
    /\ UNCHANGED <<token, linkedinEnabled, result, scoreVars, routeVars, baseVars>>

\* the fetch connector p awaits settles: its code runs to the next await
Respond(p, status) ==
    /\ run = "fetching"
    /\ conn[p].pc = "fetch"
    /\ ~conn[p].stalled
    /\ conn' = [conn EXCEPT ![p] =
                  CASE p = "reddit" -> RedditRespond(conn[p], status)
                    [] p = "x" -> XRespond(conn[p], status)
                    [] OTHER -> LinkedInRespond(conn[p], status)]
    /\ UNCHANGED <<token, linkedinEnabled, run, theme, result, scoreVars, routeVars, baseVars>>

\* the body connector p awaits settles: its code runs to the next await
BodyRead(p, out) ==
    /\ run = "fetching"
    /\ conn[p].pc \in {"body", "errbody"}
    /\ ~conn[p].stalled
    /\ conn' = [conn EXCEPT ![p] =
                  CASE p = "reddit" -> RedditBody(conn[p], out)
                    [] p = "x" -> XBody(conn[p], out)
                    [] OTHER -> LinkedInBody(conn[p], out)]
    /\ UNCHANGED <<token, linkedinEnabled, run, theme, result, scoreVars, routeVars, baseVars>>

\* the endpoint of the request connector p awaits never answers, or never sends the
\* rest of the body: fetch() is called without a signal or a timeout, so nothing
\* ends the await
Stall(p) ==
    /\ run = "fetching"
    /\ conn[p].pc \in {"fetch", "body", "errbody"}
    /\ ~conn[p].stalled
    /\ conn' = [conn EXCEPT ![p].stalled = TRUE]
    /\ UNCHANGED <<token, linkedinEnabled, run, theme, result, scoreVars, routeVars, baseVars>>

\* the rate-limit delay connector p awaits is over
DelayDone(p) ==
    /\ run = "fetching"
    /\ conn[p].pc = "delay"
    /\ conn' = [conn EXCEPT ![p] = IF p = "reddit" THEN RedditNext(conn[p]) ELSE XNext(conn[p])]
    /\ UNCHANGED <<token, linkedinEnabled, run, theme, result, scoreVars, routeVars, baseVars>>

\* runDiscovery goes on as soon as one connector promise is resolved
FinishEarly ==
    /\ run = "fetching"
    /\ \E p \in Platforms : conn[p].pc = "done"
    /\ run' = "done"
    /\ result' = Discover(theme, [i \in 1..Len(ConnectorOrder) |-> conn[ConnectorOrder[i]].res])
    /\ UNCHANGED <<token, linkedinEnabled, theme, conn, scoreVars, routeVars, baseVars>>

\* Promise.all resolves once every connector promise is resolved; runDiscovery runs on
\* to its return
Finish ==
    /\ run = "fetching"
    /\ \A p \in Platforms : conn[p].pc = "done"
    /\ run' = "done"
    /\ result' = Discover(theme, [i \in 1..Len(ConnectorOrder) |-> conn[ConnectorOrder[i]].res])
    /\ UNCHANGED <<token, linkedinEnabled, theme, conn, scoreVars, routeVars, baseVars>>

\* every request is answered
Next ==
    \/ \E th \in Themes : StartRun(th)
    \/ \E p \in Platforms : \E status \in Statuses(p) : Respond(p, status)
    \/ \E p \in Platforms : \E out \in Bodies(p, conn[p].path) : BodyRead(p, out)
    \/ \E p \in Platforms : DelayDone(p)
    \/ Finish

Spec == Init /\ [][Next]_vars

\* requests may also stay unanswered; the event loop runs every continuation that can
\* run, and an endpoint that answers does so eventually
NextStall ==
    \/ \E th \in Themes : StartRun(th)
    \/ \E p \in Platforms : \E status \in Statuses(p) : Respond(p, status)
    \/ \E p \in Platforms : \E out \in Bodies(p, conn[p].path) : BodyRead(p, out)
    \/ \E p \in Platforms : Stall(p)
    \/ \E p \in Platforms : DelayDone(p)
    \/ Finish

\* Finish can be taken: Promise.all is resolved
FinishEnabled == run = "fetching" /\ \A p \in Platforms : conn[p].pc = "done"

\* weak fairness of Finish, with ENABLED <<Finish>>_vars written as FinishEnabled
FairFinish == []<>~FinishEnabled \/ []<><<Finish>>_vars

\* an endpoint that answers does so eventually, and every delay ends
FairConnector(p) ==
    /\ WF_vars(\E status \in Statuses(p) : Respond(p, status))
    /\ WF_vars(\E out \in Bodies(p, conn[p].path) : BodyRead(p, out))
    /\ WF_vars(DelayDone(p))

FairSpec == Init /\ [][NextStall]_vars /\ (\A p \in Platforms : FairConnector(p)) /\ FairFinish

(***************************************************************************)
(* The scorer on its own: scorePost applied to one post drawn from the     *)
(* values below, which lie on both sides of every threshold of the code.   *)
(***************************************************************************)
MetricValues == {NONE, 30, 1500}
FollowerValues == {NONE, 9, 10350, 100000}
DateValues ==
    {NoDate, InvalidDate, DateAt(0 - 5), DateAt(1), DateAt(2), DateAt(30), DateAt(100),
     DateAt(300), DateAt(1000)}
TitleValues == {Words(<<"news">>), Words(<<"why?", "5", "tips">>)}
TextValues ==
    {EmptyText,
     [words |-> <<"how", "to", "startup", "mistakes">>, pad |-> 76],
     [words |-> <<>>, pad |-> 25],
     [words |-> <<"why?">>, pad |-> 79]}

\* the metrics the engagement formula of the platform reads
UsedMetrics(platform) ==
    CASE platform = "reddit" -> {"upvotes", "comments"}
      [] platform = "x" -> {"likes", "reposts", "comments"}
      [] OTHER -> {"likes", "comments", "shares"}

MetricsFor(platform) ==
    {m \in [DOMAIN NoMetrics -> MetricValues] :
        \A f \in DOMAIN NoMetrics : f \notin UsedMetrics(platform) => m[f] = NONE}

ScoreInputs ==
    UNION {[platform : {pf},
            url : {EmptyUrl, <<"https://reddit.com", "/r/a">>},
            author : {"", "alice"},
            author_followers : FollowerValues,
            title : TitleValues,
            text : TextValues,
            created_at : DateValues,
            metrics : MetricsFor(pf)] : pf \in Platforms}

InitScore ==
    /\ now = 0
    /\ calledAt = NoCalls
    /\ token = FALSE
    /\ linkedinEnabled = FALSE
    /\ run = "idle"
    /\ theme = <<>>
    /\ conn = [p \in Platforms |-> IdleConnector]
    /\ result = NoDiscovery
    /\ scoreIn \in ScoreInputs
    /\ scoreOut = <<>>
    /\ cmpIn = <<>>
    /\ cmpOut = <<>>
    /\ againOut = <<>>
    /\ RouteIdle
    /\ retry = NoRetry
    /\ logged = NoLogged

\* scorePost is called with the first post
Score ==
    /\ scoreOut = <<>>
    /\ scoreOut' = scorePost(scoreIn)
    /\ calledAt' = [calledAt EXCEPT !.first = now]
    /\ UNCHANGED <<runVars, now, scoreIn, cmpIn, cmpOut, againOut, routeVars, baseVars>>

\* the same post at a greater age, or with one metric of the engagement formula of
\* its platform greater (an absent metric counts as 0)
Variants(post) ==
    {[post EXCEPT !.created_at = d] :
        d \in {e \in DateValues : /\ e.kind = "date"
                                  /\ post.created_at.kind = "date"
                                  /\ HoursAgo(e) > HoursAgo(post.created_at)}}
    \cup UNION {{[post EXCEPT !.metrics[f] = v] :
                    v \in {w \in MetricValues : OrZero(w) > OrZero(post.metrics[f])}} :
                 f \in UsedMetrics(post.platform)}

\* scorePost is called with a variant of the first post
ScoreVariant(v) ==
    /\ scoreOut # <<>>
    /\ cmpOut = <<>>
    /\ againOut = <<>>
    /\ cmpIn' = v
    /\ cmpOut' = scorePost(v)
    /\ UNCHANGED <<runVars, now, scoreIn, scoreOut, againOut, calledAt, routeVars, baseVars>>

\* the reasons array is a binding of the module, and the reasons of the call
\* before are still in it
ScoreAgainSharedReasons ==
    /\ scoreOut # <<>>
    /\ againOut = <<>>
    /\ againOut' = [scorePost(scoreIn) EXCEPT
                       !.why = Slice0((IF cmpOut # <<>> THEN cmpOut ELSE scoreOut).why \o @,
                                      MAX_REASONS)]
    /\ calledAt' = [calledAt EXCEPT !.again = now]
    /\ UNCHANGED <<runVars, now, scoreIn, scoreOut, cmpIn, cmpOut, routeVars, baseVars>>

\* scorePost is called with the first post again: the call reads the post and the
\* clock, and a reasons array of its own
ScoreAgain ==
    /\ scoreOut # <<>>
    /\ againOut = <<>>
    /\ againOut' = scorePost(scoreIn)
    /\ calledAt' = [calledAt EXCEPT !.again = now]
    /\ UNCHANGED <<runVars, now, scoreIn, scoreOut, cmpIn, cmpOut, routeVars, baseVars>>

NextScore ==
    \/ Score
    \/ \E v \in Variants(scoreIn) : ScoreVariant(v)
    \/ ScoreAgain

SpecScore == InitScore /\ [][NextScore]_vars

(***************************************************************************)
(* The scorer and the clock: calls of scorePost with hours passing before, *)
(* between and after them.                                                 *)
(***************************************************************************)
MaxTicks == 1
TICK_HOURS == 30

\* the posts scored while the clock runs: with or without followers and a text,
\* every date, and each metric absent or large
ClockInputs ==
    UNION {[platform : {pf},
            url : {EmptyUrl},
            author : {"alice"},
            author_followers : {NONE, 100000},
            title : TitleValues,
            text : {EmptyText, [words |-> <<"why?">>, pad |-> 79]},
            created_at : DateValues,
            metrics : {m \in MetricsFor(pf) : \A f \in DOMAIN m : m[f] # 30}] :
           pf \in Platforms}

InitClock ==
    /\ now = 0
    /\ calledAt = NoCalls
    /\ token = FALSE
    /\ linkedinEnabled = FALSE
    /\ run = "idle"
    /\ theme = <<>>
    /\ conn = [p \in Platforms |-> IdleConnector]
    /\ result = NoDiscovery
    /\ scoreIn \in ClockInputs
    /\ scoreOut = <<>>
    /\ cmpIn = <<>>
    /\ cmpOut = <<>>
    /\ againOut = <<>>
    /\ RouteIdle
    /\ retry = NoRetry
    /\ logged = NoLogged

\* TICK_HOURS hours pass
Tick ==
    /\ now < MaxTicks * TICK_HOURS
    /\ now' = now + TICK_HOURS
    /\ UNCHANGED <<runVars, scoreIn, scoreOut, cmpIn, cmpOut, againOut, calledAt, routeVars,
                   baseVars>>

NextClock ==
    \/ Score
    \/ \E v \in Variants(scoreIn) : ScoreVariant(v)
    \/ ScoreAgain
    \/ Tick

SpecClock == InitClock /\ [][NextClock]_vars

(***************************************************************************)
(* POST /api/run.  Every call of the handler is suspended at each of its   *)
(* awaits, where the other calls and the dashboard run.  The runDiscovery  *)
(* call of a handler shares no state with another: it is the await         *)
(* "discovering", which ends with connector results drawn from results the *)
(* connectors can return, the DiscoveryResult being computed from them as  *)
(* runDiscovery computes it.                                               *)
(***************************************************************************)
RouteThemes ==
    {NoTheme, NumberTheme,
     StringTheme(0, EmptyText, 0),
     StringTheme(2, EmptyText, 0),
     StringTheme(0, Words(<<"x">>), 1),
     StringTheme(1, Words(<<"to">>), 1),
     StringTheme(0, [words |-> <<"how">>, pad |-> 33], 0)}

\* supabase.auth.getUser(): a user, no user, an error, or createClient() throws
AuthKinds == {"user", "anonymous", "autherror", "throws"}

\* a well-formed request of a signed-in user
BaseRequest ==
    [body |-> "json", theme |-> StringTheme(1, Words(<<"to">>), 1), linkedin_url |-> "",
     auth |-> "user"]

\* the requests explored: BaseRequest with each theme, each outcome of the sign-in
\* check, a body request.json() throws on ("malformed"), a linkedin_url, and a
\* request that is invalid and anonymous at once
Requests ==
    {[BaseRequest EXCEPT !.theme = t] : t \in RouteThemes}
    \cup {[BaseRequest EXCEPT !.auth = a] : a \in AuthKinds}
    \cup {[BaseRequest EXCEPT !.body = "malformed"],
          [BaseRequest EXCEPT !.linkedin_url = "li"],
          [BaseRequest EXCEPT !.theme = NoTheme, !.auth = "anonymous"]}

\* fetchReddit: both paths failed, or the API path returned one post
RouteRedditResults ==
    {createConnectorResult("reddit", <<>>, "api", "Both API and scraping failed")}
    \cup {createConnectorResult("reddit", RedditApiIngest(<<c>>, <<>>, {}).posts, "api", "") :
            c \in {r \in RedditChildren : r.hasData /\ r.ups > 1000}}

\* fetchX: both paths failed, or the scraping path returned one post
RouteXResults ==
    {createConnectorResult("x", <<>>, "api", "Both API and scraping failed")}
    \cup {createConnectorResult("x", XScrapeIngest(<<m>>, <<>>, {}, 1).posts, "scraping", "") :
            m \in {r \in XMatches : r.pad = 0 /\ ~IsEmptyText(r)}}

RouteLinkedInResults ==
    {createConnectorResult("linkedin", <<>>, "api", "LinkedIn integration limited in MVP")}

\* what the three connectors of one run return: no post, or the posts of one platform
RoutePlatformResults ==
    {prs \in {<<r, x, l>> : r \in RouteRedditResults, x \in RouteXResults,
                            l \in RouteLinkedInResults} :
        prs[1].posts = <<>> \/ prs[2].posts = <<>>}

InitRoute ==
    /\ now = 0
    /\ calledAt = NoCalls
    /\ token = FALSE
    /\ linkedinEnabled = FALSE
    /\ run = "idle"
    /\ theme = <<>>
    /\ conn = [p \in Platforms |-> IdleConnector]
    /\ result = NoDiscovery
    /\ scoreIn = <<>>
    /\ scoreOut = <<>>
    /\ cmpIn = <<>>
    /\ cmpOut = <<>>
    /\ againOut = <<>>
    /\ attempts = <<[user_id |-> "u2", theme |-> Words(<<"to">>),
                     status |-> "success", month |-> 0]>>
    /\ subscription \in {"none", "active"}
    /\ profile = ""
    /\ month = 0
    /\ startOfMonth = [h \in Handlers |-> NONE]
    /\ routePc = [h \in Handlers |-> "idle"]
    /\ routeReq = [h \in Handlers |-> NoRequest]
    /\ routeRun = [h \in Handlers |-> NoDiscovery]
    /\ response = [h \in Handlers |-> NoResponse]
    /\ served = 0
    /\ dash = NoDashboard
    /\ retry = NoRetry
    /\ logged = NoLogged

\* call h of the handler goes on to its next await
Goto(h, pc) ==
    /\ routePc' = [routePc EXCEPT ![h] = pc]
    /\ response' = response

\* call h of the handler returns the response resp; its request is kept no longer
Reject(h, resp) ==
    /\ routePc' = [routePc EXCEPT ![h] = "done"]
    /\ response' = [response EXCEPT ![h] = resp]
    /\ routeReq' = [routeReq EXCEPT ![h] = NoRequest]

\* call h of the handler goes on to its next await, or returns: what a step that
\* may return does
Step(h, returns, resp, pc) ==
    IF returns THEN Reject(h, resp) ELSE Goto(h, pc) /\ routeReq' = routeReq

\* the catch block of POST
Unexpected(h) ==
    Reject(h, ErrorResponse(500, "DISCOVERY_FAILED",
                            "An unexpected error occurred. Please try again."))

\* POST(request) is called: it runs to `await request.json()`
Post(h, req) ==
    /\ served < MaxRequests
    /\ h = served + 1
    /\ routePc[h] = "idle"
    /\ served' = served + 1
    /\ routeReq' = [routeReq EXCEPT ![h] = req]
    /\ Goto(h, "json")
    /\ UNCHANGED <<runVars, scoreVars, baseVars, attempts, subscription, profile, month,
                   routeRun, dash, startOfMonth>>

\* request.json() is over: the theme is validated, then `await createClient()`
BodyParsed(h) ==
    /\ routePc[h] = "json"
    /\ IF routeReq[h].body = "malformed" THEN Unexpected(h)
       ELSE IF ThemeMissing(routeReq[h].theme)
       THEN Reject(h, ErrorResponse(400, "INVALID_REQUEST", "Theme is required"))
       ELSE IF ThemeLengthInvalid(Trim(routeReq[h].theme))
       THEN Reject(h, ErrorResponse(400, "INVALID_REQUEST",
                                    "Theme must be between 2 and 200 characters"))
       ELSE Goto(h, "client") /\ routeReq' = routeReq
    /\ UNCHANGED <<runVars, scoreVars, baseVars, attempts, subscription, profile, month,
                   routeRun, served, dash, startOfMonth>>

\* createClient() is over: `await supabase.auth.getUser()`
ClientCreated(h) ==
    /\ routePc[h] = "client"
    /\ IF routeReq[h].auth = "throws" THEN Unexpected(h)
       ELSE Goto(h, "auth") /\ routeReq' = routeReq
    /\ UNCHANGED <<runVars, scoreVars, baseVars, attempts, subscription, profile, month,
                   routeRun, served, dash, startOfMonth>>

\* getUser() is over: 401, or the update of profiles is awaited, or checkGating is
\* called and runs to its first query
UserRead(h) ==
    /\ routePc[h] = "auth"
    /\ IF routeReq[h].auth # "user"
       THEN Reject(h, ErrorResponse(401, "AUTH_REQUIRED", "Please sign in to continue"))
       ELSE /\ Goto(h, IF routeReq[h].linkedin_url # "" THEN "profile" ELSE "gating")
            /\ routeReq' = routeReq
    /\ UNCHANGED <<runVars, scoreVars, baseVars, attempts, subscription, profile, month,
                   routeRun, served, dash, startOfMonth>>

\* the update of profiles is over, its outcome is not read: checkGating is called;
\* body.linkedin_url is not read again
ProfileUpdated(h, updateOk) ==
    /\ routePc[h] = "profile"
    /\ profile' = IF updateOk THEN routeReq[h].linkedin_url ELSE profile
    /\ Goto(h, "gating")
    /\ routeReq' = [routeReq EXCEPT ![h].linkedin_url = ""]
    /\ UNCHANGED <<runVars, scoreVars, baseVars, attempts, subscription, month,
                   routeRun, served, dash, startOfMonth>>

\* the select on subscriptions of checkGating is over, in the call before
\* runDiscovery ("gating") or in the one after recordRunAttempt ("newGating")
SubscriptionRead(h, selectOk) ==
    /\ routePc[h] \in {"gating", "newGating"}
    /\ IF ~IsSubscribed(subscription, selectOk)
       \* getStartOfMonthUTC() is called now, and the count is issued with it
       THEN /\ Goto(h, IF routePc[h] = "gating" THEN "counting" ELSE "newCounting")
            /\ routeReq' = routeReq
            /\ startOfMonth' = [startOfMonth EXCEPT ![h] = month]
       \* what checkGating returns before runDiscovery is not enforced
       ELSE /\ Step(h, routePc[h] = "newGating",
                    RunResponse(routeRun[h], GatingSubscribed.remaining_runs), "discovering")
            /\ startOfMonth' = startOfMonth
    /\ UNCHANGED <<runVars, scoreVars, baseVars, attempts, subscription, profile, month,
                   routeRun, served, dash>>

\* the count on run_attempts of checkGating is over
RunsCounted(h, countOk) ==
    /\ routePc[h] \in {"counting", "newCounting"}
    /\ Step(h, routePc[h] = "newCounting",
            RunResponse(routeRun[h],
                        GatingCounted(attempts, USER, startOfMonth[h], countOk).remaining_runs),
            "discovering")
    /\ startOfMonth' = [startOfMonth EXCEPT ![h] = NONE]
    /\ UNCHANGED <<runVars, scoreVars, baseVars, attempts, subscription, profile, month,
                   routeRun, served, dash>>

\* runDiscovery(theme) is over: recordRunAttempt is called and runs to its insert
Discovered(h, platformResults) ==
    /\ routePc[h] = "discovering"
    /\ routeRun' = [routeRun EXCEPT ![h] =
                       Discover(ThemeWords(Trim(routeReq[h].theme)), platformResults)]
    /\ Goto(h, "recording")
    /\ UNCHANGED <<runVars, scoreVars, baseVars, attempts, subscription, profile, month,
                   routeReq, served, dash, startOfMonth>>

\* the insert into run_attempts is over: 500 after a failed discovery, otherwise
\* checkGating is called again
AttemptRecorded(h, insertOk) ==
    /\ routePc[h] = "recording"
    /\ attempts' = recordRunAttempt(attempts, USER, Trim(routeReq[h].theme),
                                    AttemptStatus(routeRun[h]), month, insertOk)
    /\ Step(h, AttemptStatus(routeRun[h]) = "failure",
            ErrorResponse(500, "DISCOVERY_FAILED",
                "Unable to find content for this theme. Try a different topic or check back later."),
            "newGating")
    /\ UNCHANGED <<runVars, scoreVars, baseVars, subscription, profile, month,
                   routeRun, served, dash, startOfMonth>>

\* the month ends
NextMonth ==
    /\ month < MaxMonth
    /\ month' = month + 1
    /\ UNCHANGED <<runVars, scoreVars, baseVars, attempts, subscription, profile, routePc, routeReq,
                   routeRun, response, served, dash, startOfMonth>>

---------------------------------------------------------------------------
\* dashboard/page.tsx: handleDiscover in the browser of the user, which searches Reddit
\* itself and writes to profiles and run_attempts

\* handleDiscover goes on to its next query, or to the insert when no query is left
\* or enough posts were found
DashboardLoop(d) ==
    IF d.query < DASHBOARD_QUERIES /\ d.found < DASHBOARD_ENOUGH
    THEN [d EXCEPT !.pc = "fetch", !.query = @ + 1]
    ELSE [d EXCEPT !.pc = "insert"]

\* handleDiscover is called with a theme and the LinkedIn URL typed in
DashboardDiscover(url) ==
    /\ dash.pc = "idle"
    /\ dash.runs < MaxDashboardRuns
    /\ dash' = IF url # ""
               THEN [NoDashboard EXCEPT !.pc = "upsert", !.linkedinUrl = url, !.runs = dash.runs + 1]
               ELSE DashboardLoop([NoDashboard EXCEPT !.runs = dash.runs + 1])
    /\ UNCHANGED <<runVars, scoreVars, baseVars, attempts, subscription, profile, month,
                   routePc, routeReq, routeRun, response, served, startOfMonth>>

\* the upsert of profiles is over
DashboardUpserted(upsertOk) ==
    /\ dash.pc = "upsert"
    /\ profile' = IF upsertOk THEN dash.linkedinUrl ELSE profile
    /\ dash' = DashboardLoop([dash EXCEPT !.linkedinUrl = ""])
    /\ UNCHANGED <<runVars, scoreVars, baseVars, attempts, subscription, month,
                   routePc, routeReq, routeRun, response, served, startOfMonth>>

\* fetchRedditFromBrowser(query) returned n posts
DashboardFetched(n) ==
    /\ dash.pc = "fetch"
    /\ dash' = DashboardLoop([dash EXCEPT !.found = @ + n])
    /\ UNCHANGED <<runVars, scoreVars, baseVars, attempts, subscription, profile, month,
                   routePc, routeReq, routeRun, response, served, startOfMonth>>

\* the insert into run_attempts is over
DashboardRecorded(insertOk) ==
    /\ dash.pc = "insert"
    /\ attempts' = recordRunAttempt(attempts, USER, DashboardTheme,
                                    IF dash.found = 0 THEN "failure" ELSE "success",
                                    month, insertOk)
    /\ dash' = [NoDashboard EXCEPT !.runs = dash.runs]
    /\ UNCHANGED <<runVars, scoreVars, baseVars, subscription, profile, month,
                   routePc, routeReq, routeRun, response, served, startOfMonth>>

NextRoute ==
    \/ \E h \in Handlers : \E req \in Requests : Post(h, req)
    \/ \E h \in Handlers : BodyParsed(h)
    \/ \E h \in Handlers : ClientCreated(h)
    \/ \E h \in Handlers : UserRead(h)
    \/ \E h \in Handlers : \E updateOk \in BOOLEAN : ProfileUpdated(h, updateOk)
    \/ \E h \in Handlers : \E selectOk \in BOOLEAN : SubscriptionRead(h, selectOk)
    \/ \E h \in Handlers : \E countOk \in BOOLEAN : RunsCounted(h, countOk)
    \/ \E h \in Handlers : \E prs \in RoutePlatformResults : Discovered(h, prs)
    \/ \E h \in Handlers : \E insertOk \in BOOLEAN : AttemptRecorded(h, insertOk)
    \/ NextMonth
    \/ \E url \in {"", "li2"} : DashboardDiscover(url)
    \/ \E upsertOk \in BOOLEAN : DashboardUpserted(upsertOk)
    \/ \E n \in DashboardPosts : DashboardFetched(n)
    \/ \E insertOk \in BOOLEAN : DashboardRecorded(insertOk)

SpecRoute == InitRoute /\ [][NextRoute]_vars

(***************************************************************************)
(* Scenario A: runDiscovery("startup mistakes") at the point where         *)
(* fetchReddit has returned six posts from its API path (MAX_POSTS at its  *)
(* default, 10), three with 1200 upvotes and three with 20, and the other  *)
(* two connectors have returned nothing.  The titles are drawn per post    *)
(* from a title no cluster keyword matches, a title of one cluster of the  *)
(* expansion, and the theme itself.                                        *)
(***************************************************************************)
SCENARIO_POSTS == 3 + 3

ScenarioTitles(i) ==
    {Words(<<"x">>), Words(<<"startup", "mistakes">>),
     Words(<< <<"mistakes">>, <<"guide">>, <<"help">>, <<"news">>, <<"review">>, <<"x">> >>[i])}

ScenarioChild(i, title, selftext) ==
    [hasData |-> TRUE, permalink |-> <<"/r/1", "/r/2", "/r/3", "/r/4", "/r/5", "/r/6">>[i],
     ups |-> IF i <= 3 THEN 1200 ELSE 20, num_comments |-> 0, author |-> "alice",
     title |-> title, selftext |-> selftext, age |-> 2]

ScenarioPosts ==
    {[i \in 1..SCENARIO_POSTS |->
         RedditApiPost(ScenarioChild(i, t[i], IF i = 1 THEN tx ELSE EmptyText))] :
       t \in {f \in [1..SCENARIO_POSTS -> UNION {ScenarioTitles(i) : i \in 1..SCENARIO_POSTS}] :
                 \A i \in 1..SCENARIO_POSTS : f[i] \in ScenarioTitles(i)},
       tx \in {EmptyText, Words(<<"news">>)}}

\* fetchReddit after its API path collected the six posts from its first query
\* and nothing from the two other queries and the "hot" search (six posts are
\* fewer than the default MAX_POSTS, so all four requests are made)
ScenarioReddit(posts) ==
    Resolve([IdleConnector EXCEPT !.path = "hot", !.qi = 1, !.posts = posts,
                                  !.seen = UrlsOf(posts),
                                  !.apiReqs = REDDIT_API_QUERIES + 1, !.apiEnd = Len(posts)],
            createConnectorResult("reddit", posts, "api", ""))

\* fetchX without a token after the two mirrors answered nothing for each of the
\* two queries of the scraping path
ScenarioX == XNext(XNext(XNext(XNext(fetchX(IdleConnector, FALSE)))))

InitScenarioA ==
    /\ now = 0
    /\ calledAt = NoCalls
    /\ token = FALSE
    /\ linkedinEnabled = FALSE
    /\ run = "fetching"
    /\ theme = <<"startup", "mistakes">>
    /\ \E posts \in ScenarioPosts :
          conn = [p \in Platforms |->
                    CASE p = "reddit" -> ScenarioReddit(posts)
                      [] p = "x" -> ScenarioX
                      [] OTHER -> fetchLinkedIn(IdleConnector, FALSE)]
    /\ result = NoDiscovery
    /\ scoreIn = <<>>
    /\ scoreOut = <<>>
    /\ cmpIn = <<>>
    /\ cmpOut = <<>>
    /\ againOut = <<>>
    /\ RouteIdle
    /\ retry = NoRetry
    /\ logged = NoLogged

NextScenarioA == Finish

SpecScenarioA == InitScenarioA /\ [][NextScenarioA]_vars

(***************************************************************************)
(* withRetry on its own: one call with arguments drawn from the values     *)
(* below, fn returning or throwing at each call.                           *)
(***************************************************************************)
MaxAttempts == 3
AttemptValues == {NONE} \cup 0..MaxAttempts
DelayValues == {NONE, 0, 250}
FnOutcomes ==
    {[kind |-> "returns", v |-> v] : v \in {"v1", "v2"}}
    \cup {[kind |-> "throws", v |-> e] : e \in {"e1", "e2"}}

InitRetry ==
    /\ now = 0
    /\ calledAt = NoCalls
    /\ token = FALSE
    /\ linkedinEnabled = FALSE
    /\ run = "idle"
    /\ theme = <<>>
    /\ conn = [p \in Platforms |-> IdleConnector]
    /\ result = NoDiscovery
    /\ scoreIn = <<>>
    /\ scoreOut = <<>>
    /\ cmpIn = <<>>
    /\ cmpOut = <<>>
    /\ againOut = <<>>
    /\ RouteIdle
    /\ retry = NoRetry
    /\ logged = NoLogged

\* withRetry(fn, maxAttempts, baseDelay) up to its first await
CallWithRetry(maxAttempts, baseDelay) ==
    /\ retry.pc = "idle"
    /\ retry' = withRetry(maxAttempts, baseDelay)
    /\ UNCHANGED <<runVars, scoreVars, routeVars, logged>>

\* the promise of fn() settles: withRetry runs on to its next await or to its end
FnSettles(out) ==
    /\ retry.pc = "calling"
    /\ \E r \in {[retry EXCEPT !.outcomes = Append(@, out)]} :
          retry' = IF out.kind = "returns" THEN RetryReturn(r, out.v) ELSE RetryCatch(r, out.v)
    /\ UNCHANGED <<runVars, scoreVars, routeVars, logged>>

\* the timer of delay(delayMs) fires
RetryDelayOver ==
    /\ retry.pc = "delaying"
    /\ retry' = RetryDelayed(retry)
    /\ UNCHANGED <<runVars, scoreVars, routeVars, logged>>

NextRetry ==
    \/ \E m \in AttemptValues, b \in DelayValues : CallWithRetry(m, b)
    \/ \E out \in FnOutcomes : FnSettles(out)
    \/ RetryDelayOver

SpecRetry == InitRetry /\ [][NextRetry]_vars

(***************************************************************************)
(* One call of fetchReddit or fetchX in which some log calls throw.        *)
(***************************************************************************)
MaxLogFailures == 1
PathResults == {"posts", "empty"}

InitLogged ==
    /\ now = 0
    /\ calledAt = NoCalls
    /\ token \in BOOLEAN
    /\ linkedinEnabled = FALSE
    /\ run = "idle"
    /\ theme = <<>>
    /\ conn = [p \in Platforms |-> IdleConnector]
    /\ result = NoDiscovery
    /\ scoreIn = <<>>
    /\ scoreOut = <<>>
    /\ cmpIn = <<>>
    /\ cmpOut = <<>>
    /\ againOut = <<>>
    /\ RouteIdle
    /\ retry = NoRetry
    /\ logged = NoLogged

\* fetchReddit(queries) or fetchX(queries) is called
CallLogged(platform, failing) ==
    /\ logged.pc = "idle"
    /\ logged' = LoggedFetch([NoLogged EXCEPT !.platform = platform, !.failing = failing], token)
    /\ UNCHANGED <<runVars, scoreVars, routeVars, retry>>

\* fetchViaAPI returns
ApiPathReturns(out) ==
    /\ logged.pc = "api"
    /\ logged' = LogApiReturned(logged, out)
    /\ UNCHANGED <<runVars, scoreVars, routeVars, retry>>

\* fetchViaScraping returns
ScrapingPathReturns(out) ==
    /\ logged.pc = "scraping"
    /\ logged' = LogScrapingReturned(logged, out)
    /\ UNCHANGED <<runVars, scoreVars, routeVars, retry>>

NextLogged ==
    \/ \E platform \in {"reddit", "x"} :
         \E failing \in {F \in SUBSET LogCalls : Cardinality(F) <= MaxLogFailures} :
            CallLogged(platform, failing)
    \/ \E out \in PathResults : ApiPathReturns(out)
    \/ \E out \in PathResults : ScrapingPathReturns(out)

SpecLogged == InitLogged /\ [][NextLogged]_vars

(***************************************************************************)
(* Claims                                                                  *)
(***************************************************************************)

\* C1: for every post with absent or non-negative integer metrics and follower
\* count, on any platform and for any created_at (absent, unparsable, past or
\* future), the score scorePost returns is an integer between 0 and 100.
C1_ScoreInRange == scoreOut # <<>> => scoreOut.score \in 0..SCORE_CAP

\* a post dated in the future that reaches the top score
C1_Witness ==
    /\ scoreOut # <<>>
    /\ scoreOut.score = SCORE_CAP
    /\ scoreIn.created_at.kind = "date"
    /\ HoursAgo(scoreIn.created_at) < 0

\* the path whose array the posts of the result of connector call c are: "none" for
\* the empty array of a failure result
CameFrom(c) ==
    IF c.res.posts = <<>> THEN "none"
    ELSE IF c.res.posts = c.posts /\ c.path = "scraping" THEN "scraping"
    ELSE IF c.res.posts = c.posts /\ c.path \in {"api", "hot"} THEN "api"
    ELSE "other"

\* the result of connector call c holds two posts with one url
SharesUrl(posts) == \E i, j \in 1..Len(posts) : i # j /\ posts[i].url = posts[j].url

AllDone == \A p \in Platforms : conn[p].pc = "done"

AggregateError == <<[platform |-> "", error |-> "All platforms failed to return results"]>>

\* C2: if every connector returns an empty post list, runDiscovery returns
\* success=false, no cluster, total_posts=0 and exactly the one error "All
\* platforms failed to return results".
C2_AllEmptyFails ==
    (run = "done" /\ \A p \in Platforms : conn[p].res.posts = <<>>)
        => /\ result.success = FALSE
           /\ result.clusters = <<>>
           /\ result.total_posts = 0
           /\ result.errors = AggregateError

\* a finished run in which all three connectors ended empty, each with its own error
C2_Witness ==
    /\ run = "done"
    /\ \A p \in Platforms : conn[p].res.posts = <<>> /\ conn[p].res.error # ""
    /\ conn["reddit"].scrReqs > 0
    /\ result.success = FALSE

\* C3: in every DiscoveryResult no ScoredPost is in two of the returned clusters
\* and none is twice in one cluster, also when posts of the merged list share a url.
C3_ClustersDisjoint ==
    run = "done" =>
        \A i, j \in 1..Len(result.clusters) :
            \A a \in 1..Len(result.clusters[i].posts) :
                \A b \in 1..Len(result.clusters[j].posts) :
                    (i # j \/ a # b) => result.clusters[i].posts[a] # result.clusters[j].posts[b]

\* a result with posts in two clusters, from a merged list in which two posts share a url
C3_Witness ==
    /\ run = "done"
    /\ Len(result.clusters) >= 2
    /\ SharesUrl(conn["x"].res.posts)
    /\ conn["reddit"].res.posts # <<>>

\* C4: the post list one fetchReddit or fetchX call returns holds each url at most
\* once, whichever path produced it.
C4_UrlsUnique ==
    \A p \in {"reddit", "x"} : conn[p].pc = "done" => ~SharesUrl(conn[p].res.posts)

\* C5: fetchReddit, fetchX and fetchLinkedIn never reject: whatever the requests of
\* either path end in, each call is awaiting a request, a body or a delay, or is resolved
\* with a ConnectorResult of its platform, with a source and a list of posts of
\* that platform.
C5_NeverRejects ==
    \A p \in Platforms :
        /\ run # "idle" => conn[p].pc \in {"fetch", "body", "errbody", "delay", "done"}
        /\ conn[p].pc = "done" =>
              /\ conn[p].res.platform = p
              /\ conn[p].res.source \in {"api", "scraping"}
              /\ \A i \in 1..Len(conn[p].res.posts) : conn[p].res.posts[i].platform = p

\* all three calls resolved, after every request of both paths of fetchReddit and
\* fetchX and the request of fetchLinkedIn ended without a post
C5_Witness ==
    /\ AllDone
    /\ conn["reddit"].apiReqs = REDDIT_API_QUERIES + 1
    /\ conn["reddit"].scrReqs = REDDIT_SCRAPE_QUERIES
    /\ conn["x"].apiReqs = X_API_QUERIES
    /\ conn["x"].scrReqs = X_SCRAPE_QUERIES * NITTER_INSTANCES
    /\ conn["linkedin"].scrReqs = LINKEDIN_QUERIES
    /\ \A p \in Platforms : conn[p].res.error # ""

\* the API path of connector call c was not attempted: fetchX without a token
NotAttempted(p, c) == p = "x" /\ ~token /\ c.apiEnd = NONE

\* the API path of connector call c ended with zero posts, or was not attempted
ApiEndedEmpty(p, c) == c.apiEnd = 0 \/ NotAttempted(p, c)

\* the order of the two paths of fetchReddit and fetchX, and when the second starts
PathOrder(p, c) ==
    /\ c.scrStarted <=> (c.pc # "idle" /\ ApiEndedEmpty(p, c))
    /\ c.scrReqs > 0 => c.scrStarted
    /\ c.apiEnd > 0 => c.pc = "done" /\ c.scrReqs = 0

\* C6 as stated: the API path is tried before the scraping path, the scraping path
\* is started if and only if the API path ended with zero posts or was not
\* attempted, and every returned result has source 'api' exactly when its posts
\* came from the API path and 'scraping' exactly when they came from the scraping path.
C6_SourceExactlyPath ==
    \A p \in {"reddit", "x"} :
        /\ PathOrder(p, conn[p])
        /\ conn[p].pc = "done" =>
              /\ conn[p].res.source = "api" <=> CameFrom(conn[p]) = "api"
              /\ conn[p].res.source = "scraping" <=> CameFrom(conn[p]) = "scraping"

\* C6 amended: the order of the paths and the start of the scraping path are as
\* stated; a result with at least one post has source 'api' exactly when its posts
\* came from the API path and 'scraping' exactly when they came from the scraping
\* path; a result with no post has source 'api', whichever paths ran.
C6_SourceOfNonEmpty ==
    \A p \in {"reddit", "x"} :
        /\ PathOrder(p, conn[p])
        /\ (conn[p].pc = "done" /\ conn[p].res.posts # <<>>) =>
              /\ conn[p].res.source = "api" <=> CameFrom(conn[p]) = "api"
              /\ conn[p].res.source = "scraping" <=> CameFrom(conn[p]) = "scraping"
        /\ (conn[p].pc = "done" /\ conn[p].res.posts = <<>>) => conn[p].res.source = "api"

\* fetchReddit returned posts of its scraping path after its API path ended empty,
\* and fetchX returned the empty result after both of its paths ran
C6_Witness ==
    /\ conn["reddit"].pc = "done"
    /\ conn["reddit"].apiReqs > 0
    /\ conn["reddit"].res.source = "scraping"
    /\ conn["reddit"].res.posts # <<>>
    /\ conn["x"].pc = "done"
    /\ conn["x"].apiReqs > 0
    /\ conn["x"].scrReqs > 0
    /\ conn["x"].res.posts = <<>>

\* C7: every ConnectorResult a connector returns has an error if and only if its
\* post list is empty, and when both paths of fetchReddit or fetchX ended with zero
\* posts the result is empty with the error "Both API and scraping failed".
C7_ErrorIffEmpty ==
    \A p \in Platforms :
        conn[p].pc = "done" =>
            /\ conn[p].res.error # "" <=> conn[p].res.posts = <<>>
            /\ (p \in {"reddit", "x"} /\ ApiEndedEmpty(p, conn[p]) /\ conn[p].posts = <<>>) =>
                  /\ conn[p].res.posts = <<>>
                  /\ conn[p].res.error = "Both API and scraping failed"

\* fetchX returned after its API requests and its scraping requests all ended
\* without a post, while fetchReddit returned posts
C7_Witness ==
    /\ conn["x"].pc = "done"
    /\ conn["x"].apiReqs = X_API_QUERIES
    /\ conn["x"].scrReqs = X_SCRAPE_QUERIES * NITTER_INSTANCES
    /\ conn["x"].res.posts = <<>>
    /\ conn["reddit"].pc = "done"
    /\ conn["reddit"].res.posts # <<>>

\* C8: without a bearer token fetchX issues no API request and does not reject, it
\* starts the scraping path, and it returns source 'scraping' whenever the scraping
\* path yielded at least one post.
C8_NoTokenScrapes ==
    ~token =>
        /\ conn["x"].apiReqs = 0
        /\ conn["x"].pc # "rejected"
        /\ conn["x"].pc # "idle" => conn["x"].scrStarted /\ conn["x"].path = "scraping"
        /\ (conn["x"].pc = "done" /\ conn["x"].posts # <<>>) =>
              /\ conn["x"].res.source = "scraping"
              /\ conn["x"].res.posts = conn["x"].posts

\* fetchX returned scraped posts without a token, after a mirror failed
C8_Witness ==
    /\ ~token
    /\ conn["x"].pc = "done"
    /\ conn["x"].scrReqs > 1
    /\ conn["x"].res.source = "scraping"
    /\ conn["x"].res.posts # <<>>

\* C9: runDiscovery starts the three connector calls together and merges only once
\* all three have returned, in whatever order they return; the result then holds
\* the three ConnectorResults in order and counts every post any of them returned,
\* whether or not another connector ended empty with an error.
C9_AllSettledThenMerge ==
    /\ run = "fetching" => \A p \in Platforms : conn[p].pc # "idle"
    /\ run = "done" =>
          /\ AllDone
          /\ result.platform_results
                = [i \in 1..Len(ConnectorOrder) |-> conn[ConnectorOrder[i]].res]
          /\ result.total_posts = Len(conn["reddit"].res.posts) + Len(conn["x"].res.posts)
                                    + Len(conn["linkedin"].res.posts)
          /\ result.success <=> \E p \in Platforms : conn[p].res.posts # <<>>

\* a finished run in which fetchReddit ended empty with an error after all its
\* requests and the posts fetchX returned are in the result
C9_Witness ==
    /\ run = "done"
    /\ conn["reddit"].res.error # ""
    /\ conn["reddit"].scrReqs = REDDIT_SCRAPE_QUERIES
    /\ conn["x"].res.posts # <<>>
    /\ result.success
    /\ result.total_posts = Len(conn["x"].res.posts)

\* C10: every runDiscovery invocation eventually completes, also when a request of
\* some connector never receives a response.
C10_RunCompletes == (run = "fetching") ~> (run = "done")

\* what checkGating computes for the user when its count query succeeds
RemainingRuns == checkGating(attempts, subscription, USER, month, TRUE, TRUE).remaining_runs

\* the rows of run_attempts of the user with status 'success'
SuccessRows == {i \in 1..Len(attempts) : attempts[i].user_id = USER /\ attempts[i].status = "success"}

\* a platform returned at least one post in the DiscoveryResult r
SomePlatformHasPosts(r) ==
    \E i \in 1..Len(r.platform_results) : r.platform_results[i].posts # <<>>

\* call h of the handler ends the insert of recordRunAttempt in this step
InsertEnds(h) == routePc[h] = "recording" /\ routePc'[h] # "recording"

\* the dashboard ends its insert in this step
DashboardInsertEnds == dash.pc = "insert" /\ dash'.pc # "insert"

\* C11: over any sequence of requests of a user, interleaved in any way, the insert
\* at the end of a run whose discovery returned no post (success=false or
\* total_posts=0) records no 'success' attempt and does not lower the remaining
\* free runs checkGating computes; a 'success' attempt is recorded, and the
\* remaining runs lowered, only by the insert at the end of a run in which at least
\* one platform returned at least one post (in the dashboard: its Reddit search).
C11_FailedRunNotBilled ==
    [][/\ \A h \in Handlers :
             (InsertEnds(h) /\ (~routeRun[h].success \/ routeRun[h].total_posts = 0))
                => (SuccessRows' = SuccessRows /\ RemainingRuns' = RemainingRuns)
       /\ (SuccessRows' # SuccessRows \/ RemainingRuns' < RemainingRuns)
          => \/ \E h \in Handlers : InsertEnds(h) /\ SomePlatformHasPosts(routeRun[h])
             \/ DashboardInsertEnds /\ dash.found > 0]_vars

\* after a failed run that was recorded as a failure and a successful one, both of
\* the route, the user has one free run less
C11_Witness ==
    /\ dash.runs = 0
    /\ \A h \in Handlers : routePc[h] = "done"
    /\ \E i \in 1..Len(attempts) : attempts[i].user_id = USER /\ attempts[i].status = "failure"
    /\ Cardinality(SuccessRows) = 1
    /\ subscription = "none"
    /\ RemainingRuns = FREE_RUNS_PER_MONTH - 1
    /\ \E h \in Handlers : response[h].code = "DISCOVERY_FAILED" /\ ~routeRun[h].success
                           /\ routeRun[h].platform_results # <<>>
    /\ \E h \in Handlers : response[h].success

\* a theme that is a string whose trimmed length is between 2 and 200
ValidTheme(th) ==
    th.kind = "string" /\ CharLen(th.text) >= 2 /\ CharLen(th.text) <= 200

\* call h of the handler is past the checks of the request: at the awaits of
\* checkGating, runDiscovery, recordRunAttempt
PastChecks(pc) ==
    pc \in {"gating", "counting", "discovering", "recording", "newGating", "newCounting"}

\* call h of the handler returns its response in this step
Answers(h) == routePc[h] # "done" /\ routePc'[h] = "done"

\* call h has run no discovery, and the step records no attempt
NothingRun(h) == routeRun'[h] = NoDiscovery /\ attempts' = attempts

\* C12: POST /api/run calls runDiscovery only for a request whose theme is valid (a
\* string of trimmed length 2 to 200) and whose caller is signed in; a request with
\* an invalid theme is answered 400 INVALID_REQUEST and a request of a caller that
\* is not signed in 401 AUTH_REQUIRED, and in both cases no discovery is run and no
\* attempt is recorded.
C12_ValidatedBeforeDiscovery ==
    [][\A h \in Handlers :
          /\ (PastChecks(routePc'[h]) \/ routeRun'[h] # routeRun[h])
             => (ValidTheme(routeReq'[h].theme) /\ routeReq'[h].auth = "user")
          /\ (Answers(h) /\ routeReq[h].body = "json" /\ ~ValidTheme(routeReq[h].theme))
             => (response'[h].status = 400 /\ response'[h].code = "INVALID_REQUEST"
                    /\ NothingRun(h))
          /\ (Answers(h) /\ routeReq[h].body = "json" /\ ValidTheme(routeReq[h].theme)
                /\ routeReq[h].auth \in {"anonymous", "autherror"})
             => (response'[h].status = 401 /\ response'[h].code = "AUTH_REQUIRED"
                    /\ NothingRun(h))]_vars

\* a request with a theme of a wrong length was answered 400 and another request
\* of the user ran a successful discovery
C12_Witness ==
    /\ \E h \in Handlers :
          /\ routePc[h] = "done"
          /\ response[h].status = 400
          /\ response[h].message = "Theme must be between 2 and 200 characters"
    /\ \E h \in Handlers : routeRun[h].success /\ response[h].status = 200
    /\ \E i \in 1..Len(attempts) : attempts[i].user_id = USER

\* the posts of the result that are in a returned cluster
ClusteredPosts ==
    UNION {{result.clusters[c].posts[k] : k \in 1..Len(result.clusters[c].posts)} :
             c \in 1..Len(result.clusters)}

\* the posts the connectors returned, scored
ReturnedPosts ==
    UNION {{scorePost(conn[p].res.posts[i]) : i \in 1..Len(conn[p].res.posts)} : p \in Platforms}

\* C13 as stated: when the connectors of a run for "startup mistakes" return 6
\* posts in total, 3 with 1200 interactions and 3 with 20, the result is successful,
\* has at least one cluster, and all 6 posts are in the returned clusters, whatever
\* their titles and texts.
C13_AllSixClustered ==
    run = "done" =>
        /\ result.success
        /\ Len(result.clusters) >= 1
        /\ ClusteredPosts = ReturnedPosts

\* C13 amended: the result is successful with total_posts = 6 and has at least
\* one cluster; every post of a returned cluster is one of the 6; and at least
\* 5 of the 6 posts are in the returned clusters.
C13_FiveOfSixClustered ==
    run = "done" =>
        /\ result.success
        /\ result.total_posts = SCENARIO_POSTS
        /\ Len(result.clusters) >= 1
        /\ ClusteredPosts \subseteq ReturnedPosts
        /\ Cardinality(ClusteredPosts) >= SCENARIO_POSTS - 1

\* the 6 posts fill five clusters and a sixth cluster was cut off
C13_Witness ==
    /\ run = "done"
    /\ Cardinality(ReturnedPosts) = SCENARIO_POSTS
    /\ Len(result.clusters) = MAX_CLUSTERS
    /\ Cardinality(ClusteredPosts) = SCENARIO_POSTS - 1

\* Scenario C: upvotes 1500, created 2 hours ago, a text of 80 words with a question mark
ScenarioC(post) ==
    /\ post.metrics.upvotes = 1500
    /\ post.created_at = DateAt(2)
    /\ WordCount(post.text) = 80
    /\ TextHas(post.text, "?")

EngagementReasons ==
    {"High Reddit engagement", "reposts = high shareability", "Strong X engagement",
     "comments = high discussion value", "LinkedIn viral signal"}

RecencyReasons == {"Posted in last 24 hours - high relevance", "Posted in last 3 days"}

Mentions(why, kinds) == \E i \in 1..Len(why) : why[i].kind \in kinds

\* C14: a post with metrics.upvotes = 1500, created 2 hours before now, with a text
\* of 80 words that holds a question mark, gets a score of at least 80 and a why
\* that mentions high engagement and recency.
C14_ScenarioCUpperBand ==
    (scoreOut # <<>> /\ ScenarioC(scoreIn)) =>
        /\ scoreOut.score >= 80
        /\ Mentions(scoreOut.why, EngagementReasons)
        /\ Mentions(scoreOut.why, RecencyReasons)

FactorReached(post) ==
    LET m == post.metrics
        total == TotalEngagement(post)
        content == ToLowerCase(IF ~IsEmptyText(post.text) THEN post.text ELSE post.title)
    IN \/ post.platform = "reddit" /\ total > 500
       \/ post.platform = "x" /\ (OrZero(m.reposts) > 10 \/ total > 100)
       \/ post.platform = "linkedin" /\ (OrZero(m.comments) > 20 \/ total > 100)
       \/ OrZero(post.author_followers) > 10000
       \/ post.created_at.kind = "date" /\ HoursAgo(post.created_at) < 72
       \/ TextHas(content, "?")
       \/ TextHasList(content)

\* C16: for every post, why has at most 3 entries, and why is empty only if no
\* factor (engagement, authority, recency, quality) reached a reason threshold.
C16_WhyAtMostThree ==
    scoreOut # <<>> =>
        /\ Len(scoreOut.why) <= 3
        /\ scoreOut.why = <<>> => ~FactorReached(scoreIn)

\* a post for which the scorer found more than 3 reasons
C16_Witness ==
    /\ scoreOut # <<>>
    /\ Len(calculateBreakdown(scoreIn).reasons) > 3
    /\ Len(scoreOut.why) = 3

\* post b is post a at a greater age, all other fields equal
IsOlder(a, b) ==
    /\ a.created_at.kind = "date"
    /\ b.created_at.kind = "date"
    /\ HoursAgo(b.created_at) > HoursAgo(a.created_at)
    /\ b = [a EXCEPT !.created_at = b.created_at]

\* C17: of two posts that differ only in created_at, the older one never scores
\* higher; in particular a post created 1 hour ago scores at least as much as
\* the same post created 300 hours ago.
C17_RecencyMonotone ==
    (cmpOut # <<>> /\ IsOlder(scoreIn, cmpIn)) => cmpOut.score <= scoreOut.score

\* the post created 1 hour ago scores more than the same post created 300 hours ago
C17_Witness ==
    /\ cmpOut # <<>>
    /\ IsOlder(scoreIn, cmpIn)
    /\ scoreIn.created_at = DateAt(1)
    /\ cmpIn.created_at = DateAt(300)
    /\ cmpOut.score < scoreOut.score

\* post b is post a with one metric of the engagement formula greater
HasMoreOf(a, b, f) ==
    /\ f \in UsedMetrics(a.platform)
    /\ OrZero(b.metrics[f]) > OrZero(a.metrics[f])
    /\ b = [a EXCEPT !.metrics[f] = b.metrics[f]]

\* C18: on each platform, with all other fields equal, a post with one metric of
\* the platform's engagement formula strictly greater has an engagement sub-score
\* that is not smaller, and the sub-score is between 0 and 40.
C18_EngagementMonotone ==
    /\ scoreOut # <<>> => calculateEngagementScore(scoreIn).score \in 0..ENGAGEMENT_WEIGHT
    /\ (cmpOut # <<>> /\ \E f \in DOMAIN NoMetrics : HasMoreOf(scoreIn, cmpIn, f)) =>
          /\ calculateEngagementScore(cmpIn).score >= calculateEngagementScore(scoreIn).score
          /\ calculateEngagementScore(cmpIn).score \in 0..ENGAGEMENT_WEIGHT

\* a LinkedIn post with more shares has a greater sub-score, one at the cap
C18_Witness ==
    /\ cmpOut # <<>>
    /\ scoreIn.platform = "linkedin"
    /\ HasMoreOf(scoreIn, cmpIn, "shares")
    /\ calculateEngagementScore(scoreIn).score > 0
    /\ calculateEngagementScore(cmpIn).score = ENGAGEMENT_WEIGHT
    /\ calculateEngagementScore(cmpIn).score > calculateEngagementScore(scoreIn).score

ConnectorResults == [i \in 1..Len(ConnectorOrder) |-> conn[ConnectorOrder[i]].res]

CarriesError(r) == r.error # ""

\* one entry for each connector result that carries an error, in connector order
ErrorsOfConnectors ==
    LET failed == SelectSeq(ConnectorResults, CarriesError)
    IN [i \in 1..Len(failed) |-> [platform |-> failed[i].platform, error |-> failed[i].error]]

\* C20: runDiscovery returns success=true exactly when the merged post list is
\* not empty; a successful result holds all connector results in
\* platform_results and, in errors, exactly one entry for each connector result
\* that carries an error, in connector order.
C20_ErrorsAreNonFatal ==
    run = "done" =>
        /\ result.success <=> Flatten([i \in 1..3 |-> ConnectorResults[i].posts]) # <<>>
        /\ result.success =>
              /\ result.platform_results = ConnectorResults
              /\ result.errors = ErrorsOfConnectors
              /\ Len(result.errors) = Cardinality({p \in Platforms : conn[p].res.error # ""})

\* a successful run with the posts of fetchReddit and the errors of fetchX and
\* fetchLinkedIn, in that order
C20_Witness ==
    /\ run = "done"
    /\ result.success
    /\ conn["reddit"].res.posts # <<>>
    /\ Len(result.errors) = 2
    /\ result.errors[1].platform = "x"
    /\ result.errors[2].platform = "linkedin"

\* the number of calls of fn that threw
RetryFailures == Cardinality({i \in 1..Len(retry.outcomes) : retry.outcomes[i].kind = "throws"})

\* the number of calls of fn made, the one awaited included
RetryCalls == Len(retry.outcomes) + (IF retry.pc = "calling" THEN 1 ELSE 0)

\* C21: withRetry calls fn at most maxAttempts times (3 by default), resolves
\* with the value of the first call that returns and calls fn no more, awaits
\* baseDelay * 2^(k-1) after the k-th failed attempt except after the last
\* attempt, and rejects with the error of the last attempt once maxAttempts
\* attempts have failed.
C21_BoundedBackoff ==
    LET n == Len(retry.outcomes) IN
    retry.pc # "idle" =>
        /\ RetryCalls <= retry.maxAttempts
        /\ \A i \in 1..(n - 1) : retry.outcomes[i].kind = "throws"
        /\ retry.pc = "resolved" <=> (n > 0 /\ retry.outcomes[n].kind = "returns")
        /\ retry.pc = "resolved" => retry.settled = retry.outcomes[n].v
        /\ retry.waits = [k \in 1..Len(retry.waits) |-> retry.baseDelay * 2^(k - 1)]
        /\ Len(retry.waits) = Min(RetryFailures, IF retry.maxAttempts > 0 THEN retry.maxAttempts - 1 ELSE 0)
        /\ retry.pc = "rejected" <=> RetryFailures = retry.maxAttempts
        /\ (retry.pc = "rejected" /\ n > 0) => retry.settled = retry.outcomes[n].v

\* a call with the default maxAttempts that rejected after three failed attempts
\* and two delays, with the error of the third attempt, not that of the first
C21_Witness ==
    /\ retry.pc = "rejected"
    /\ retry.maxAttempts = DEFAULT_MAX_ATTEMPTS
    /\ retry.baseDelay = 250
    /\ retry.waits = <<250, 500>>
    /\ Len(retry.outcomes) = 3
    /\ retry.outcomes[1].v # retry.outcomes[3].v
    /\ retry.settled = retry.outcomes[3].v

\* the posts of the three connector results, reddit first, then x, then linkedin
PostsInConnectorOrder ==
    conn["reddit"].res.posts \o conn["x"].res.posts \o conn["linkedin"].res.posts

\* allPosts of the run: platformResults.flatMap(r => r.posts)
MergedPosts == Flatten([i \in 1..Len(result.platform_results) |-> result.platform_results[i].posts])

ScoredMerged == [i \in 1..Len(MergedPosts) |-> scorePost(MergedPosts[i])]

\* the place a stable sort by descending score gives the i-th element of scored
RankOf(scored, i) ==
    1 + Cardinality({j \in 1..Len(scored) : scored[j].score > scored[i].score})
      + Cardinality({j \in 1..(i - 1) : scored[j].score = scored[i].score})

\* C22: whichever connector completed first, the merged post list holds the
\* reddit posts, then the x posts, then the linkedin posts; scoreAndRankPosts
\* returns the scored posts of its input, each once, by descending score, posts
\* of equal score in the order of the input.
C22_MergedThenStablyRanked ==
    run = "done" =>
        /\ MergedPosts = PostsInConnectorOrder
        /\ \E ranked \in {scoreAndRankPosts(MergedPosts)} :
              /\ Len(ranked) = Len(MergedPosts)
              /\ \A i \in 1..Len(MergedPosts) : ranked[RankOf(ScoredMerged, i)] = ScoredMerged[i]
              /\ \A i \in 1..(Len(ranked) - 1) : ranked[i].score >= ranked[i + 1].score

\* a run whose merged list holds two reddit posts of one score, and then an x
\* post that outscores them
C22_Witness ==
    /\ run = "done"
    /\ Len(conn["reddit"].res.posts) = 2
    /\ conn["x"].res.posts # <<>>
    /\ ScoredMerged[1].score = ScoredMerged[2].score
    /\ ScoredMerged[1] # ScoredMerged[2]
    /\ ScoredMerged[3].score > ScoredMerged[1].score

\* the ranked list organizeIntoClusters is called with
RankedPosts == scoreAndRankPosts(MergedPosts)

\* the (up to) n first places of S: in a list sorted by descending score, the
\* places of its n highest-scoring posts
FirstPlaces(S, n) == {i \in S : Cardinality({j \in S : j < i}) < n}

\* the places of the ranked list whose post matches a keyword of definition d
MatchingPlaces(d) == {i \in 1..Len(RankedPosts) : MatchesCluster(RankedPosts[i], d)}

\* the places claimed by the cluster definitions 1..k, a post being claimed when
\* it is itself placed in a cluster
RECURSIVE ClaimedUpTo(_)
ClaimedUpTo(k) ==
    IF k = 0 THEN {}
    ELSE LET before == ClaimedUpTo(k - 1)
         IN before \cup FirstPlaces(MatchingPlaces(expandTheme(theme)[k]) \ before, CLUSTER_POSTS)

\* the posts at the places S, in the order of the ranked list
RankedAt(S) == LET In(i) == i \in S IN
    [k \in 1..Cardinality(S) |-> RankedPosts[SelectSeq([i \in 1..Len(RankedPosts) |-> i], In)[k]]]

\* the places definition k is to receive
PlacesOfDefinition(k) == ClaimedUpTo(k) \ ClaimedUpTo(k - 1)

\* the places 'Top Performers' is to receive
PlacesOfTopPerformers ==
    FirstPlaces((1..Len(RankedPosts)) \ ClaimedUpTo(Len(expandTheme(theme))), CLUSTER_POSTS)

\* C23: every returned cluster of a definition holds exactly the (up to) 5
\* highest-scoring posts that match a keyword of the definition and that no
\* earlier definition's cluster claimed, the definitions taken in the Theme
\* Expander's order; the returned 'Top Performers' cluster holds the (up to) 5
\* highest-scoring posts no definition's cluster claimed.
C23_GreedyAssignment ==
    (run = "done" /\ result.success) =>
        \A c \in 1..Len(result.clusters) :
            /\ result.clusters[c].name = <<"Top Performers", "">>
                  => result.clusters[c].posts = RankedAt(PlacesOfTopPerformers)
            /\ \A k \in 1..Len(expandTheme(theme)) :
                  result.clusters[c].name = expandTheme(theme)[k].name
                      => result.clusters[c].posts = RankedAt(PlacesOfDefinition(k))

\* the places of ranked that the definitions d[1..k] take when a place is
\* closed to later clusters as soon as a post of its url is in a cluster:
\* [places |-> the places of each definition, urls |-> the urls in clusters]
RECURSIVE TakenByUrl(_, _, _)
TakenByUrl(ranked, d, k) ==
    IF k = 0 THEN [places |-> <<>>, urls |-> {}]
    ELSE LET before == TakenByUrl(ranked, d, k - 1)
             mine == FirstPlaces({i \in 1..Len(ranked) :
                                    /\ ranked[i].url \notin before.urls
                                    /\ MatchesCluster(ranked[i], d[k])}, CLUSTER_POSTS)
         IN [places |-> Append(before.places, mine),
             urls |-> before.urls \cup {ranked[i].url : i \in mine}]

\* the places of 'Top Performers' after the places taken
RestByUrl(ranked, taken) ==
    FirstPlaces({i \in 1..Len(ranked) : ranked[i].url \notin taken.urls}, CLUSTER_POSTS)

\* the posts of ranked at the places S, in order
PostsAt(ranked, S) ==
    LET In(i) == i \in S
        places == SelectSeq([i \in 1..Len(ranked) |-> i], In)
    IN [k \in 1..Len(places) |-> ranked[places[k]]]

\* the post lists of the clusters made before the sort: that of 'Top Performers'
\* and those of the definitions, the empty ones left out
MadeClusters ==
    LET ranked == RankedPosts
        taken == TakenByUrl(ranked, expandTheme(theme), Len(expandTheme(theme)))
    IN {ps \in {PostsAt(ranked, RestByUrl(ranked, taken))}
               \cup {PostsAt(ranked, taken.places[k]) : k \in 1..Len(taken.places)} :
          ps # <<>>}

\* the mean score of posts a is not greater than that of posts b
MeanAtMost(a, b) == SumScores(a) * Len(b) <= SumScores(b) * Len(a)

ReturnedPostLists == {result.clusters[c].posts : c \in 1..Len(result.clusters)}

\* C24: a successful DiscoveryResult has at most 5 clusters, each with 1 to 5
\* posts, in order of non-increasing mean score; a cluster made and not
\* returned has a mean score not greater than that of any returned cluster.
C24_ClustersBoundedAndOrdered ==
    (run = "done" /\ result.success) =>
        /\ Len(result.clusters) <= MAX_CLUSTERS
        /\ \A c \in 1..Len(result.clusters) :
              Len(result.clusters[c].posts) \in 1..CLUSTER_POSTS
        /\ \A c \in 1..(Len(result.clusters) - 1) :
              MeanAtMost(result.clusters[c + 1].posts, result.clusters[c].posts)
        /\ ReturnedPostLists \subseteq MadeClusters
        /\ Cardinality(ReturnedPostLists) = Min(MAX_CLUSTERS, Cardinality(MadeClusters))
        /\ \A dropped \in MadeClusters \ ReturnedPostLists :
              \A kept \in ReturnedPostLists : MeanAtMost(dropped, kept)

\* six clusters were made, the five returned have different means, and the one
\* left out is not 'Top Performers'
C24_Witness ==
    /\ run = "done"
    /\ result.success
    /\ Cardinality(MadeClusters) = MAX_CLUSTERS + 1
    /\ Len(result.clusters) = MAX_CLUSTERS
    /\ SumScores(result.clusters[1].posts) * Len(result.clusters[MAX_CLUSTERS].posts)
          > SumScores(result.clusters[MAX_CLUSTERS].posts) * Len(result.clusters[1].posts)
    /\ \E c \in 1..Len(result.clusters) : result.clusters[c].name = <<"Top Performers", "">>

\* C25: the authority sub-score of a post is 0 when the post carries no follower
\* count, and is between 0 and 25 when it carries one, the author bonus included.
C25_AuthorityZeroWithoutFollowers ==
    scoreOut # <<>> =>
        /\ scoreIn.author_followers = NONE => calculateAuthorityScore(scoreIn).score = 0
        /\ calculateAuthorityScore(scoreIn).score \in 0..AUTHORITY_CAP

\* the handling of the answer to the request of fetchX on its scraping path ends in
\* this step: the fetch failed or gave a non-2xx status, or the body was read
XMirrorAnswered ==
    /\ conn["x"].pc \in {"fetch", "body"}
    /\ conn["x"].path = "scraping"
    /\ conn'["x"] # conn["x"]
    /\ conn'["x"].pc # "body"
    /\ conn'["x"].stalled = conn["x"].stalled

\* the next mirror is requested for the same query
XNextMirrorRequested ==
    /\ conn'["x"].pc = "fetch"
    /\ conn'["x"].qi = conn["x"].qi
    /\ conn'["x"].inst = conn["x"].inst + 1
    /\ conn'["x"].scrReqs = conn["x"].scrReqs + 1

\* C26: on the scraping path of fetchX, a mirror that yields no post for a
\* query (network error, non-2xx status, unreadable body or no new tweet) is
\* followed, at once or after the delay, by a request to the next mirror for the
\* same query as long as a mirror is left, and after a mirror has yielded a post
\* no other mirror is requested for that query.
C26_MirrorsTriedInOrder ==
    [][/\ (XMirrorAnswered /\ conn'["x"].posts = conn["x"].posts
             /\ conn["x"].inst < NITTER_INSTANCES)
          => \/ XNextMirrorRequested
             \/ conn'["x"].pc = "delay" /\ conn'["x"].qi = conn["x"].qi
                                        /\ conn'["x"].inst = conn["x"].inst
       /\ (conn["x"].pc = "delay" /\ conn["x"].path = "scraping" /\ conn'["x"] # conn["x"]
             /\ conn["x"].inst < NITTER_INSTANCES)
          => XNextMirrorRequested
       /\ (XMirrorAnswered /\ Len(conn'["x"].posts) > Len(conn["x"].posts))
          => conn'["x"].pc = "done" \/ (conn'["x"].pc = "fetch" /\ conn'["x"].qi > conn["x"].qi)
      ]_vars

\* the two paths of a connector: fetchViaAPI (with its "hot" search) and fetchViaScraping
SamePath(a, b) == (a = "scraping") <=> (b = "scraping")

\* connector p issues a request in this step
RequestIssued(p) ==
    /\ conn'[p].pc = "fetch"
    /\ conn'[p].apiReqs + conn'[p].scrReqs > conn[p].apiReqs + conn[p].scrReqs

\* C27: within one path of a connector, a request that follows another request
\* is issued only at the end of a rate-limit delay, never in the step that
\* handles the answer to the earlier request, whatever that answer was (2xx,
\* non-2xx, or an error).
C27_DelayBetweenRequests ==
    [][\A p \in Platforms :
          (RequestIssued(p) /\ conn[p].pc \in {"fetch", "body", "errbody"}
             /\ SamePath(conn[p].path, conn'[p].path))
              => FALSE]_vars

\* C28: a log call that throws, at the start, success or error of either path,
\* never aborts fetchReddit or fetchX: the call goes on to await a path or
\* resolves with a ConnectorResult, having run the scraping path when the API
\* path returned no posts.
C28_LoggingNeverAborts ==
    /\ logged.pc \in {"idle", "api", "scraping", "resolved"}
    /\ (logged.pc = "resolved" /\ logged.apiOut = "empty") => logged.scrOut # ""

\* C29: with the scraping flag disabled fetchLinkedIn issues no request and returns
\* zero posts with an error; with the flag enabled it issues at most one request,
\* none after the answer to that request (a redirect and a login wall included),
\* and still returns zero posts with an error.
LinkedInRequests == conn["linkedin"].apiReqs + conn["linkedin"].scrReqs

C29_LinkedInReturnsNothing ==
    /\ ~linkedinEnabled => LinkedInRequests = 0
    /\ linkedinEnabled => LinkedInRequests <= 1
    /\ (conn["linkedin"].pc \in {"fetch", "body", "delay"}) => LinkedInRequests = 1
    /\ conn["linkedin"].pc # "delay"
    /\ conn["linkedin"].pc = "done"
         => /\ conn["linkedin"].res.posts = <<>>
            /\ conn["linkedin"].res.error # ""
            /\ conn["linkedin"].res.platform = "linkedin"

\* the flag is enabled and the one request was answered: the connector returned nothing
C29_Witness ==
    /\ linkedinEnabled
    /\ conn["linkedin"].pc = "done"
    /\ LinkedInRequests = 1
    /\ conn["linkedin"].res.posts = <<>>
    /\ conn["linkedin"].res.error = "LinkedIn scraping failed or returned no results"

\* the number of posts across the clusters
RECURSIVE CountPosts(_)
CountPosts(clusters) ==
    IF clusters = <<>> THEN 0 ELSE Len(Head(clusters).posts) + CountPosts(Tail(clusters))

\* the urls of the posts of the returned cluster c
ClusterUrls(c) == {result.clusters[c].posts[i].url : i \in 1..Len(result.clusters[c].posts)}

\* C30: claim tracking is keyed by url: in a successful result no url is in two
\* clusters, so a post sharing its url with a post of a cluster is in no later
\* cluster and not in 'Top Performers'; the clusters returned are among those
\* made with the places closed by url, and the number of posts across the
\* returned clusters is at most total_posts.
C30_ClaimedByUrl ==
    (run = "done" /\ result.success) =>
        /\ \A a, b \in 1..Len(result.clusters) : a # b => ClusterUrls(a) \cap ClusterUrls(b) = {}
        /\ ReturnedPostLists \subseteq MadeClusters
        /\ CountPosts(result.clusters) <= result.total_posts
        /\ result.total_posts = Len(RankedPosts)

\* fewer posts in the clusters than total_posts although no cluster holds 5 posts
\* and fewer than 5 clusters were made: a post was left out for its url alone
C30_Witness ==
    /\ run = "done"
    /\ result.success
    /\ CountPosts(result.clusters) < result.total_posts
    /\ Len(result.clusters) < MAX_CLUSTERS
    /\ \A c \in 1..Len(result.clusters) : Len(result.clusters[c].posts) < CLUSTER_POSTS
    /\ \E i \in 1..Len(RankedPosts) :
          /\ \A c \in 1..Len(result.clusters) :
                \A j \in 1..Len(result.clusters[c].posts) :
                   result.clusters[c].posts[j] # RankedPosts[i]
          /\ \E c \in 1..Len(result.clusters) : RankedPosts[i].url \in ClusterUrls(c)

====
